---- MODULE Spec2Model ----
(***************************************************************************)
(* Sensor loop of the Home Assistant companion (src/sensor-loop.js): the   *)
(* periodic tick, its single-flight guard, the failure backoff and the     *)
(* timers it arms, driven by the Node event loop.                          *)
(*                                                                         *)
(* One TLA+ step is one synchronous run of JavaScript: a macrotask (an IPC *)
(* call of start/stop/setInterval, a timer callback, the resumption of an  *)
(* awaited promise) or the promise reaction (.then callback) that the      *)
(* macrotask queued.  `job` holds what the current run still has to do, so *)
(* that no other event interleaves with a pending call or reaction.        *)
(*                                                                         *)
(* The collection engine (src/sensors.js: collectSensorStates, its caches  *)
(* and resetSensorDefinitions) is the second part of the model; it runs    *)
(* under SpecCollect, the sensor loop under Spec.                          *)
(***************************************************************************)
EXTENDS Integers, Sequences, FiniteSets, TLC

\* ---------------------------------------------------------------- bounds
MaxTimers == 2      \* timers pending at once
MaxErrors == 5      \* cap on consecutiveErrors
MaxTicks == 2       \* tick activations past the re-entrancy guard at once
MaxCycles == 11     \* cap on tickCounter
MaxColls == 2       \* collections past the re-entrancy guard at once
MaxFaults == 1      \* probe queries that fail or leave a field out, per run
MaxResets == 1      \* resetSensorDefinitions() calls per run

\* ------------------------------------------------------- program constants
BACKOFF_SCHEDULE == <<5, 10, 30, 60>>
DefaultInterval == 30
ErrorThreshold == 3

\* intervalHandle: the position in `timers` of the timer the handle refers
\* to, Null for null, Dead for the handle of a timer that exists no more
Null == 0
Dead == -1

\* inputs
StartArgs == {0, 15}        \* start(intervalSeconds); 0 is "omitted"
SetArgs == {15}             \* setInterval(seconds)
CfgIntervals == {0, 15}     \* config.update_interval; 0 is "unset"

VARIABLES
    intervalHandle,     \* the timer the module holds (see Null, Dead)
    isRunning,
    isUpdating,
    consecutiveErrors,
    currentInterval,
    timers,             \* pending timers of the event loop, in arming order
    ticks,              \* tick() activations suspended at an await
    job,                \* rest of the current synchronous run
    webhookUrl,         \* getWebhookUrl() is non-null
    mqttConnected,      \* getIsConnected()
    update_interval,    \* loadConfig().update_interval
    backoffTime,        \* backoffTime computed by the last step (0: none)
    emitted,            \* statuses passed to emitStatus by the last step
    io,                 \* calls issued to collector/publishers by the last step
    step,               \* name of the last step
    intervalSeconds     \* argument of the start() whose reaction is pending (0: none)

vars == <<intervalHandle, isRunning, isUpdating, consecutiveErrors,
          currentInterval, timers, ticks, job, webhookUrl, mqttConnected,
          update_interval, backoffTime, emitted, io, step, intervalSeconds>>

loopVars == <<intervalHandle, isRunning, isUpdating, consecutiveErrors,
              currentInterval, timers, ticks>>
envVars == <<webhookUrl, mqttConnected, update_interval>>

\* ------------------------------------------------- the collection engine
VARIABLES
    tickCounter,
    isCollecting,
    lastCollectedStates,
    expensiveCache,     \* key -> [data, tick]
    cpuTempMethod,      \* "null", "si", "wmi", "none"
    sensorDefinitions,  \* the list of unique_ids, empty for null
    cachedStaticData,   \* fetchStaticData has run since the last reset
    detected,           \* hasNvidiaGpu, hasBattery, activeIfaces, diskTempIndices
    prevCpuTimes,       \* a CPU sample exists
    hardware,           \* what the machine has (fixed during a run)
    colls,              \* collectSensorStates() activations at an await
    returned,           \* what the last step returned to a caller
    query,              \* cache keys of the probe query the last step issued
    cycle,              \* the cycle that ran to completion in the last step
    secondGot,          \* what a caller got from the guard during the cycle
    served,             \* key -> value reported when it was last refreshed
    idsSeen,            \* unique_ids of the last list built since the reset
    firstAfterReset,    \* no cycle has started since module load or reset
    faults,             \* faulty probe answers so far
    resets,             \* resets so far
    cstep               \* name of the last step of the engine

collVars == <<tickCounter, isCollecting, lastCollectedStates, expensiveCache,
              cpuTempMethod, sensorDefinitions, cachedStaticData, detected,
              prevCpuTimes, hardware, colls, returned, query, cycle, secondGot,
              served, idsSeen, firstAfterReset, faults, resets, cstep>>

\* ------------------------------------------------------- the MQTT client
\* src/ha-api.js: the module state, the client it holds and the broker
VARIABLES
    mqttClient,         \* "null", "new" (no connect event yet) or "used"
    connected,          \* mqttClient.connected
    isConnected,
    will,               \* last-will the broker holds for the connection
    availability,       \* retained payload of AVAILABILITY_TOPIC ("" if none)
    discovery,          \* unique_ids with a retained discovery config
    stateDoc,           \* retained JSON object of STATE_TOPIC (<<>> if none)
    pad,                \* publishAllDiscoveryConfigs() in progress
    inbox,              \* retained configs on their way to the subscriber
    published,          \* publish calls of the last step, in order
    thrown,             \* the last step raised an error to its caller
    call,               \* operation and argument of the last step
    mstep               \* name of the last step of the client

mqttVars == <<mqttClient, connected, isConnected, will, availability,
              discovery, stateDoc, pad, inbox, published, thrown, call, mstep>>

\* src/main.js, startCompanion, and the registration part of src/config.js
VARIABLES
    config,             \* the persisted webhook_id, cloudhook_url, remote_ui_url, url, token
    rc,                 \* the activation of startCompanion
    requests,           \* the HTTP requests made so far, oldest first
    rstep               \* the last step of startCompanion

regVars == <<config, rc, requests, rstep>>

\* src/sensors.js, the callers of buildSensorDefinitions / getSensorDefinitions
VARIABLES
    builds,             \* the activations that await the si.get of fetchStaticData
    built,              \* what the last call that returned resolved to
    dstep               \* the last step of a definitions call

defVars == <<builds, built, dstep>>

\* src/ha-api.js, connect: the promise of each connect() call, oldest first
VARIABLES
    attempts            \* [resolved, timeout, settled, ended, closed]

connVars == <<attempts>>

extVars == <<mqttVars, regVars, defVars, connVars>>

\* what the operations of one part leave alone
notClient == <<vars, collVars, regVars, defVars>>
notMqtt == <<notClient, connVars>>
notReg == <<collVars, mqttVars, defVars, connVars>>
notDefs == <<vars, mqttVars, regVars, connVars, tickCounter, isCollecting, lastCollectedStates,
             expensiveCache, cpuTempMethod, prevCpuTimes, colls, returned, query,
             cycle, secondGot, served, idsSeen, faults, cstep>>

allVars == <<vars, collVars, extVars>>

NoPad == [pc |-> "idle", defs |-> <<>>, oldTopics |-> <<>>]
\* no connection has been opened, so the broker holds no last will
NoWill == [topic |-> [kind |-> "none", id |-> ""], payload |-> "", body |-> <<>>,
           retain |-> FALSE]

NoCall == [op |-> "none", arg |-> <<>>]

\* the client module as it is loaded
MqttIdle ==
    /\ mqttClient = "null"
    /\ connected = FALSE
    /\ isConnected = FALSE
    /\ will = NoWill
    /\ availability = ""
    /\ stateDoc = <<>>
    /\ pad = NoPad
    /\ inbox = {}
    /\ published = <<>>
    /\ thrown = FALSE
    /\ call = NoCall
    /\ mstep = "init"
    /\ attempts = <<>>

\* no webhook URL: getWebhookUrl returns null
NoUrl == [base |-> "none", gen |-> "none"]

\* no registerAllSensors result yet
NoResult == [registered |-> 0, failed |-> 0, staleCount |-> 0, isStale |-> FALSE]

NoRun == [pc |-> "idle", webhookUrl |-> NoUrl, i |-> 0, count |-> NoResult,
          regResult |-> NoResult, results |-> <<>>]

\* an installation that was never configured
RegIdle ==
    /\ config = [webhook_id |-> "none", cloudhook_url |-> "none",
                 remote_ui_url |-> "none", url |-> FALSE, token |-> FALSE]
    /\ rc = NoRun
    /\ requests = <<>>
    /\ rstep = "init"

\* no call has returned yet
NoBuilt == [defs |-> <<>>, queried |-> FALSE, first |-> FALSE, epoch |-> 0]

DefIdle ==
    /\ builds = <<>>
    /\ built = NoBuilt
    /\ dstep = "init"

ExtIdle ==
    /\ MqttIdle
    /\ discovery = {}
    /\ RegIdle
    /\ DefIdle

CacheKeys == {"cpuTemp", "cpuSpeed", "gpuData", "diskUsage", "diskTemps",
              "netStats", "swapMem", "battery"}

REFRESH_TICKS == [k \in CacheKeys |->
    CASE k = "cpuTemp" -> 2
      [] k = "cpuSpeed" -> 3
      [] k = "gpuData" -> 3
      [] k = "diskUsage" -> 6
      [] k = "diskTemps" -> 10
      [] k = "netStats" -> 1
      [] k = "swapMem" -> 6
      [] k = "battery" -> 2]

NeverRefreshed == -100

\* the caches as the module creates them (lines 75-84)
FreshCache == [k \in CacheKeys |->
    [data |-> IF k \in {"swapMem", "battery"} THEN "default" ELSE "null",
     tick |-> NeverRefreshed]]

\* machines the model runs on: presence of an NVIDIA GPU, a battery, a
\* network interface, a disk that reports its temperature
Machines == {[gpu |-> FALSE, battery |-> FALSE, net |-> FALSE, diskTemp |-> FALSE],
             [gpu |-> TRUE, battery |-> TRUE, net |-> TRUE, diskTemp |-> TRUE]}

\* the reading a probe delivers for a field it answers
Vals == {"a"}

\* sensorDefinitions = null; a list the builder makes is never empty
NoDefs == <<>>

NoReturn == [kind |-> "none", value |-> <<>>]
NoCycle == [ran |-> FALSE, defs |-> <<>>, asked |-> {}, refreshed |-> {},
            current |-> FALSE]
NoSecond == [called |-> FALSE, value |-> <<>>]

\* ---------------------------------------------------------------- helpers
Min(a, b) == IF a < b THEN a ELSE b

\* JavaScript `a || b` on numbers
OrElse(a, b) == IF a # 0 THEN a ELSE b

RemoveAt(s, k) == [i \in 1..(Len(s) - 1) |-> IF i < k THEN s[i] ELSE s[i + 1]]

\* clearInterval(h) / clearTimeout(h): Node cancels either kind with either;
\* clearing a timer that fired already does nothing
clearTimer(ts, h) == IF h \in DOMAIN ts THEN RemoveAt(ts, h) ELSE ts

\* setTimeout / setInterval: the new timer is the last one armed
Arm(ts, kind, delay) == Append(ts, [kind |-> kind, delay |-> delay])

\* the handle after the one-shot timer at position i has fired
AfterFire(h, i) == IF h = i THEN Dead ELSE IF h > i THEN h - 1 ELSE h

\* the handle after the recurring timer at position i of n was armed again
AfterRearm(h, i, n) == IF h = i THEN n ELSE IF h > i THEN h - 1 ELSE h

NoJob == [op |-> "none", origin |-> "none", outcome |-> "none"]

\* the .then reactions: start() and the backoff timer chain one to tick()
ThenJob(origin, outcome) ==
    IF origin \in {"start", "backoff"}
    THEN [op |-> "then", origin |-> origin, outcome |-> outcome]
    ELSE NoJob

\* ------------------------------------------------------------ tick pieces
BackoffTime_offByOne(n) == BACKOFF_SCHEDULE[Min(n, Len(BACKOFF_SCHEDULE) - 1) + 1]

\* lines 96-97
BackoffTime(n) == BACKOFF_SCHEDULE[Min(n - 1, Len(BACKOFF_SCHEDULE) - 1) + 1]

Reentrant_never(updating) == FALSE

\* line 37
Reentrant(updating) == updating

NoChannel_never(wh, mq) == FALSE

\* line 47
NoChannel(wh, mq) == ~wh /\ ~mq

PublishMqtt_onlyAfterOk(mq, postFailed) == mq /\ ~postFailed

\* line 79: the catch of lines 71-73 has swallowed a failed POST
PublishMqtt(mq, postFailed) == mq

Recovering_always(errs) == TRUE

\* line 88
Recovering(errs) == errs > 0

\* line 110
Reschedule(errs, handle) == errs > 1 /\ handle # Null

\* line 105
ReportsError_always(errs) == TRUE

ReportsError(errs) == errs >= ErrorThreshold

\* the collection engine as the module is loaded
CollectIdle ==
    /\ tickCounter = 0
    /\ isCollecting = FALSE
    /\ lastCollectedStates = <<>>
    /\ expensiveCache = FreshCache
    /\ cpuTempMethod = "null"
    /\ sensorDefinitions = NoDefs
    /\ cachedStaticData = FALSE
    /\ detected = [gpu |-> FALSE, battery |-> FALSE, net |-> FALSE, diskTemp |-> FALSE]
    /\ prevCpuTimes = FALSE
    /\ colls = <<>>
    /\ returned = NoReturn
    /\ query = {}
    /\ cycle = NoCycle
    /\ secondGot = NoSecond
    /\ served = [k \in CacheKeys |-> "none"]
    /\ idsSeen = <<>>
    /\ firstAfterReset = TRUE
    /\ faults = 0
    /\ resets = 0
    /\ cstep = "init"

LoopIdle ==
    /\ intervalHandle = Null
    /\ isRunning = FALSE
    /\ isUpdating = FALSE
    /\ consecutiveErrors = 0
    /\ currentInterval = DefaultInterval
    /\ timers = <<>>
    /\ ticks = <<>>
    /\ job = NoJob
    /\ webhookUrl \in BOOLEAN
    /\ mqttConnected \in BOOLEAN
    /\ update_interval \in CfgIntervals
    /\ backoffTime = 0
    /\ emitted = <<>>
    /\ io = {}
    /\ step = "init"
    /\ intervalSeconds = 0

Init ==
    /\ LoopIdle
    /\ CollectIdle
    /\ ExtIdle
    /\ hardware = [gpu |-> TRUE, battery |-> TRUE, net |-> TRUE, diskTemp |-> TRUE]

\* ------------------------------------------------------------- operations
\* what a step that calls no emitStatus / collector / publisher leaves behind
Quiet(name) ==
    /\ emitted' = <<>>
    /\ io' = {}
    /\ backoffTime' = 0
    /\ step' = name

\* startInterval(), lines 132-140
startInterval ==
    LET cleared == IF intervalHandle # Null
                   THEN clearTimer(timers, intervalHandle) ELSE timers
    IN  /\ Len(cleared) < MaxTimers
        /\ currentInterval' = OrElse(update_interval, DefaultInterval)
        /\ timers' = Arm(cleared, "interval", currentInterval')
        /\ intervalHandle' = Len(timers')

\* line 147: start() finds the loop running
AlreadyRunning_never(running) == FALSE

AlreadyRunning(running) == running

\* start(intervalSeconds), lines 146-166, up to the call of tick()
Start(iv) ==
    /\ job = NoJob
    /\ UNCHANGED <<collVars, extVars>>
    /\ UNCHANGED envVars
    /\ IF AlreadyRunning(isRunning)
       THEN /\ Quiet("start.noop")
            /\ UNCHANGED <<loopVars, job, intervalSeconds>>
       ELSE /\ currentInterval' = OrElse(iv, OrElse(update_interval, DefaultInterval))
            /\ intervalSeconds' = iv
            /\ isRunning' = TRUE
            /\ consecutiveErrors' = 0
            /\ emitted' = <<"running">>
            /\ io' = {}
            /\ backoffTime' = 0
            /\ step' = "start"
            /\ job' = [op |-> "tick", origin |-> "start", outcome |-> "none"]
            /\ UNCHANGED <<intervalHandle, isUpdating, timers, ticks>>

\* stop(), lines 171-183
Stop ==
    /\ job = NoJob
    /\ UNCHANGED <<collVars, extVars>>
    /\ UNCHANGED <<envVars, job, isUpdating, currentInterval, ticks>>
    /\ IF ~isRunning
       THEN /\ Quiet("stop.noop")
            /\ UNCHANGED <<isRunning, intervalHandle, timers, consecutiveErrors,
                           intervalSeconds>>
       ELSE /\ isRunning' = FALSE
            /\ intervalSeconds' = 0
            /\ IF intervalHandle # Null
               THEN /\ timers' = clearTimer(timers, intervalHandle)
                    /\ intervalHandle' = Null
               ELSE UNCHANGED <<timers, intervalHandle>>
            /\ consecutiveErrors' = 0
            /\ emitted' = <<"stopped">>
            /\ io' = {}
            /\ backoffTime' = 0
            /\ step' = "stop"

\* setInterval_(seconds), lines 189-195
SetInterval(seconds) ==
    /\ job = NoJob
    /\ UNCHANGED <<collVars, extVars, intervalSeconds>>
    /\ Quiet("setInterval")
    /\ UNCHANGED <<envVars, job, isRunning, isUpdating, consecutiveErrors, ticks>>
    /\ IF isRunning
       THEN startInterval
       ELSE /\ currentInterval' = seconds
            /\ UNCHANGED <<timers, intervalHandle>>

\* The event loop runs the callback of a pending timer.  A timer armed
\* earlier with a delay that is not longer expires first.  A one-shot timer
\* is gone once it fired; setInterval's timer is armed again.
FireTimer(i) ==
    /\ job = NoJob
    /\ UNCHANGED <<collVars, extVars, intervalSeconds>>
    /\ i \in DOMAIN timers
    /\ \A j \in 1..(i - 1) : timers[j].delay > timers[i].delay
    /\ timers' = IF timers[i].kind = "interval"
                 THEN Append(RemoveAt(timers, i), timers[i])
                 ELSE RemoveAt(timers, i)
    /\ intervalHandle' = IF timers[i].kind = "interval"
                         THEN AfterRearm(intervalHandle, i, Len(timers))
                         ELSE AfterFire(intervalHandle, i)
    /\ job' = [op |-> "tick", origin |-> timers[i].kind, outcome |-> "none"]
    /\ Quiet("fire")
    /\ UNCHANGED <<envVars, isRunning, isUpdating, consecutiveErrors,
                   currentInterval, ticks>>

\* the finally of lines 124-126 and the resolution of tick()'s promise
Finish_keepsGuard(k, outcome) ==
    /\ ticks' = RemoveAt(ticks, k)
    /\ isUpdating' = isUpdating
    /\ job' = ThenJob(ticks[k].origin, outcome)

Finish(k, outcome) ==
    /\ ticks' = RemoveAt(ticks, k)
    /\ isUpdating' = FALSE
    /\ job' = ThenJob(ticks[k].origin, outcome)

\* tick(), lines 35-55: from the call to the first await
TickCall ==
    /\ job.op = "tick"
    /\ UNCHANGED <<collVars, extVars, intervalSeconds>>
    /\ UNCHANGED <<envVars, consecutiveErrors, currentInterval, intervalHandle,
                   isRunning, timers>>
    /\ IF Reentrant(isUpdating)
       THEN /\ Quiet("tick.skip")
            /\ job' = ThenJob(job.origin, "skip")
            /\ UNCHANGED <<isUpdating, ticks>>
       ELSE IF NoChannel(webhookUrl, mqttConnected)
       THEN /\ emitted' = <<"error">>
            /\ io' = {}
            /\ backoffTime' = 0
            /\ step' = "tick.abort"
            /\ isUpdating' = FALSE
            /\ job' = ThenJob(job.origin, "abort")
            /\ UNCHANGED ticks
       ELSE /\ Len(ticks) < MaxTicks
            /\ isUpdating' = TRUE
            /\ ticks' = Append(ticks, [origin |-> job.origin, pc |-> "collect",
                                       webhookUrl |-> webhookUrl,
                                       mqttConnected |-> mqttConnected,
                                       hadErrors |-> consecutiveErrors > 0])
            /\ emitted' = <<>>
            /\ io' = {"collect"}
            /\ backoffTime' = 0
            /\ step' = "tick.collect"
            /\ job' = NoJob

\* tick(), lines 78-92: MQTT publish, error counter reset, end of the tick
Succeed(k, postFailed, name) ==
    /\ io' = IF PublishMqtt(ticks[k].mqttConnected, postFailed)
             THEN {IF mqttConnected THEN "publish" ELSE "publish.throw"}
             ELSE {}
    /\ emitted' = IF Recovering(consecutiveErrors) THEN <<"running">> ELSE <<>>
    /\ consecutiveErrors' = 0
    /\ backoffTime' = 0
    /\ step' = name
    /\ Finish(k, "ok")
    /\ UNCHANGED <<timers, intervalHandle>>

\* tick(), lines 94-123: the catch block
Fail(k) ==
    LET errs == consecutiveErrors + 1
        cleared == clearTimer(timers, intervalHandle)
    IN  /\ consecutiveErrors < MaxErrors
        /\ consecutiveErrors' = errs
        /\ backoffTime' = BackoffTime(errs)
        /\ emitted' = IF ReportsError(errs) THEN <<"error">> ELSE <<>>
        /\ IF Reschedule(errs, intervalHandle)
           THEN /\ Len(cleared) < MaxTimers
                /\ timers' = Arm(cleared, "backoff", backoffTime')
                /\ intervalHandle' = Len(timers')
           ELSE UNCHANGED <<timers, intervalHandle>>
        /\ io' = {}
        /\ step' = "tick.fail"
        /\ Finish(k, "fail")

\* tick() resumes from `await collectSensorStates()`, lines 55-66
CollectDone(k, r) ==
    /\ job = NoJob
    /\ UNCHANGED <<collVars, extVars, intervalSeconds>>
    /\ k \in DOMAIN ticks
    /\ ticks[k].pc = "collect"
    /\ UNCHANGED <<envVars, currentInterval, isRunning>>
    /\ CASE r = "empty" ->
              /\ emitted' = <<"error">>
              /\ io' = {}
              /\ backoffTime' = 0
              /\ step' = "tick.empty"
              /\ Finish(k, "empty")
              /\ UNCHANGED <<consecutiveErrors, timers, intervalHandle>>
         [] r = "throw" -> Fail(k)
         [] r = "ok" ->
              IF ticks[k].webhookUrl
              THEN /\ ticks' = [ticks EXCEPT ![k].pc = "post"]
                   /\ emitted' = <<>>
                   /\ io' = {"post"}
                   /\ backoffTime' = 0
                   /\ step' = "tick.post"
                   /\ UNCHANGED <<job, isUpdating, consecutiveErrors, timers,
                                  intervalHandle>>
              ELSE Succeed(k, FALSE, "tick.ok")

\* tick() resumes from `await updateSensorStates()`, lines 66-76
PostDone(k, r) ==
    /\ job = NoJob
    /\ UNCHANGED <<collVars, extVars, intervalSeconds>>
    /\ k \in DOMAIN ticks
    /\ ticks[k].pc = "post"
    /\ UNCHANGED <<envVars, currentInterval, isRunning>>
    /\ Succeed(k, r = "fail", IF r = "fail" THEN "post.fail" ELSE "post.ok")

\* the reactions chained to tick(): lines 161-165 and lines 113-120
Then ==
    /\ job.op = "then"
    /\ UNCHANGED <<collVars, extVars>>
    /\ intervalSeconds' = IF job.origin = "start" THEN 0 ELSE intervalSeconds
    /\ job' = NoJob
    /\ Quiet("then")
    /\ UNCHANGED <<envVars, isRunning, isUpdating, consecutiveErrors, ticks>>
    /\ IF job.origin = "start"
       THEN IF isRunning
            THEN startInterval
            ELSE UNCHANGED <<timers, intervalHandle, currentInterval>>
       ELSE IF consecutiveErrors = 0 /\ isRunning
            THEN startInterval
            ELSE IF isRunning
            THEN /\ Len(timers) < MaxTimers
                 /\ timers' = Arm(timers, "retry", BackoffTime(consecutiveErrors))
                 /\ intervalHandle' = Len(timers')
                 /\ UNCHANGED currentInterval
            ELSE UNCHANGED <<timers, intervalHandle, currentInterval>>

\* ------------------------------------------------------------ environment
\* the webhook registration appears in / disappears from the config
WebhookChange ==
    /\ job = NoJob
    /\ UNCHANGED <<collVars, extVars, intervalSeconds>>
    /\ webhookUrl' = ~webhookUrl
    /\ Quiet("env")
    /\ UNCHANGED <<loopVars, job, mqttConnected, update_interval>>

\* the MQTT client connects / loses its connection
MqttChange ==
    /\ job = NoJob
    /\ UNCHANGED <<collVars, extVars, intervalSeconds>>
    /\ mqttConnected' = ~mqttConnected
    /\ Quiet("env")
    /\ UNCHANGED <<loopVars, job, webhookUrl, update_interval>>

\* saveConfig({update_interval})
SaveInterval(v) ==
    /\ job = NoJob
    /\ UNCHANGED <<collVars, extVars, intervalSeconds>>
    /\ v # update_interval
    /\ update_interval' = v
    /\ Quiet("env")
    /\ UNCHANGED <<loopVars, job, webhookUrl, mqttConnected>>

Next ==
    \/ \E iv \in StartArgs : Start(iv)
    \/ Stop
    \/ \E s \in SetArgs : SetInterval(s)
    \/ \E i \in 1..MaxTimers : FireTimer(i)
    \/ TickCall
    \/ \E k \in 1..MaxTicks, r \in {"ok", "empty", "throw"} : CollectDone(k, r)
    \/ \E k \in 1..MaxTicks, r \in {"ok", "fail"} : PostDone(k, r)
    \/ Then
    \/ WebhookChange
    \/ MqttChange
    \/ \E v \in CfgIntervals : SaveInterval(v)

Spec == Init /\ [][Next]_allVars

\* ------------------------------------------------------------- properties
SuccessSteps == {"tick.ok", "post.ok", "post.fail"}

PublishAttempted == io \cap {"publish", "publish.throw"} # {}

RegularTimerArmed ==
    /\ intervalHandle \in DOMAIN timers
    /\ timers[intervalHandle].kind = "interval"

\* delays of consecutive failures 1..5, as the specification lists them
Delays5 == <<5, 10, 30, 60, 60>>

\* C1: at most one tick body is in flight, and a tick() called while
\* isUpdating is set returns at once: no collection, no publish, no status,
\* the error counter, the timers and the handle as they were.
C1_SingleFlight ==
    [][/\ Len(ticks') <= 1
       /\ (job.op = "tick" /\ isUpdating) =>
              /\ io' = {}
              /\ emitted' = <<>>
              /\ UNCHANGED <<consecutiveErrors, timers, intervalHandle,
                             isUpdating, ticks>>]_vars

C1_Witness == step = "tick.skip" /\ Len(ticks) = 1 /\ isUpdating

\* C2: when stop() has returned, no timer of the loop is pending.
C2_StopLeavesNoTimer == step = "stop" => timers = <<>>

\* C3: at most one timer is armed in every reachable state.
C3_AtMostOneTimer == Len(timers) <= 1

\* C4: every failed tick of a running loop increments the counter, leaves no
\* recurring timer and holds a one-shot retry at the delay of the new count.
C4_FailureArmsRetry ==
    [][(step' = "tick.fail" /\ isRunning) =>
           /\ consecutiveErrors' = consecutiveErrors + 1
           /\ \A i \in DOMAIN timers' : timers'[i].kind # "interval"
           /\ intervalHandle' \in DOMAIN timers'
           /\ timers'[intervalHandle'] =
                  [kind |-> "backoff", delay |-> Delays5[Min(consecutiveErrors', 5)]]]_vars

\* C5: when a tick fired by a retry timer (the backoff timer or the retry
\* armed after it) has succeeded and the loop is running, the handle holds
\* the recurring timer again.
C5_RetrySuccessResumes ==
    [][(/\ \/ job.op = "then" /\ job.origin = "backoff" /\ job.outcome = "ok"
           \/ /\ step' \in SuccessSteps
              /\ Len(ticks) = 1
              /\ ticks[1].origin = "retry"
        /\ isRunning'
        /\ consecutiveErrors' = 0) => RegularTimerArmed']_vars

\* C6: the delay computed at the n-th consecutive failure is 5, 10, 30, 60,
\* 60 for n = 1..5 and 60 for every n >= 4.
C6_BackoffSchedule ==
    step = "tick.fail" =>
        /\ consecutiveErrors >= 1
        /\ consecutiveErrors <= 5 => backoffTime = Delays5[consecutiveErrors]
        /\ consecutiveErrors >= 4 => backoffTime = 60

C6_Witness == step = "tick.fail" /\ consecutiveErrors = 5 /\ backoffTime = 60

\* C7: in a tick that saw a webhook URL and a connected MQTT client, the MQTT
\* publish is attempted in the step that completes the POST, whether the POST
\* succeeded or failed, and never before the POST has completed.
C7_IndependentPublish ==
    [][/\ (/\ step' \in {"post.ok", "post.fail"}
           /\ Len(ticks) = 1
           /\ ticks[1].mqttConnected) => PublishAttempted'
       /\ (/\ PublishAttempted'
           /\ Len(ticks) = 1
           /\ ticks[1].webhookUrl) =>
              /\ ticks[1].pc = "post"
              /\ step' \in {"post.ok", "post.fail"}
              /\ "post" \notin io']_vars

C7_Witness == step = "post.fail" /\ PublishAttempted

\* C8: a failed POST or a failed MQTT publish raises the error counter.
C8_PublishFailureCounts ==
    [][(step' = "post.fail" \/ "publish.throw" \in io') =>
           consecutiveErrors' > consecutiveErrors]_vars

C10_NoChannelAbort ==
    [][(job.op = "tick" /\ ~isUpdating /\ ~webhookUrl /\ ~mqttConnected) =>
           /\ emitted' = <<"error">>
           /\ io' = {}
           /\ backoffTime' = 0
           /\ UNCHANGED <<consecutiveErrors, timers, intervalHandle, ticks>>]_vars

C10_Witness ==
    /\ step = "tick.abort"
    /\ emitted = <<"error">>
    /\ consecutiveErrors >= 2
    /\ timers # <<>>

\* C19: start() called while the loop is running starts no tick, arms or
\* cancels no timer, and leaves the interval, the consecutive-error counter
\* and the status alone (nothing is emitted).
C19_StartWhileRunningNoop ==
    [][(step' \in {"start", "start.noop"} /\ isRunning) =>
            /\ job' = NoJob
            /\ emitted' = <<>>
            /\ io' = {}
            /\ UNCHANGED <<timers, intervalHandle, ticks, currentInterval,
                           consecutiveErrors, isRunning, isUpdating>>
      ]_allVars

C19_Witness ==
    /\ step = "start.noop"
    /\ isRunning
    /\ timers # <<>>
    /\ consecutiveErrors > 0

\* C20 as stated: the timer that the reaction to start()'s first tick arms
\* is armed only when the loop still runs, and its period is the
\* intervalSeconds that start() was given.
C20_TimerHasGivenPeriod ==
    [][(step' = "then" /\ job.origin = "start") =>
            IF isRunning
            THEN /\ intervalHandle' \in DOMAIN timers'
                 /\ timers'[intervalHandle'].kind = "interval"
                 /\ intervalSeconds # 0 =>
                        timers'[intervalHandle'].delay = intervalSeconds
            ELSE UNCHANGED <<timers, intervalHandle>>
      ]_allVars

\* C21 as stated: setInterval(s) on a running loop arms the recurring timer
\* anew with period s and makes s the interval getStatus() reports; on a
\* stopped loop it arms no timer.
C21_SetIntervalRearms ==
    [][step' = "setInterval" =>
            IF isRunning
            THEN \E s \in SetArgs :
                    /\ intervalHandle' \in DOMAIN timers'
                    /\ timers'[intervalHandle'] = [kind |-> "interval", delay |-> s]
                    /\ currentInterval' = s
            ELSE timers' = timers
      ]_allVars

\* C34: a failed tick emits 'error' iff the consecutive-error counter, after
\* its increment, is at least 3; the first and the second failure of a streak
\* emit nothing
C34_ErrorFromThirdFailure ==
    [][step' = "tick.fail" =>
            /\ consecutiveErrors' = consecutiveErrors + 1
            /\ emitted' = IF consecutiveErrors' >= 3 THEN <<"error">> ELSE <<>>
      ]_allVars

\* the third failure of a streak has just reported the error
C34_Witness ==
    /\ step = "tick.fail"
    /\ consecutiveErrors = 3
    /\ emitted = <<"error">>

\* C36: a running loop with no tick executing and no reaction pending has a
\* timer armed, whatever ticks failed, were skipped, aborted or succeeded
C36_RunningLoopHasTimer ==
    (isRunning /\ ticks = <<>> /\ job = NoJob) => timers # <<>>

\* C38: from the 'stopped' of stop() to the next start() the loop posts no
\* webhook update, publishes no MQTT state, emits no status and keeps its
\* error counter at 0, also when a tick was in flight at the stop()
C38_NothingAfterStop ==
    [][(~isRunning /\ ~isRunning') =>
            /\ io' \cap {"post", "publish"} = {}
            /\ emitted' = <<>>
            /\ consecutiveErrors' = 0
      ]_allVars

\* ===================================================== collection engine
\* src/sensors.js: collectSensorStates and what it calls

\* lines 101-103
needsRefresh_late(cache, key, counter) ==
    (counter - cache[key].tick) > REFRESH_TICKS[key]

needsRefresh(cache, key, counter) ==
    (counter - cache[key].tick) >= REFRESH_TICKS[key]

\* the hardware conditions of lines 675-682
Applicable(key, det) ==
    CASE key = "gpuData" -> det.gpu
      [] key = "diskTemps" -> det.diskTemp
      [] key = "netStats" -> det.net
      [] key = "battery" -> det.battery
      [] OTHER -> TRUE

\* refreshKeys of lines 672-682
StaleKeys(cache, det, counter) ==
    {key \in CacheKeys : Applicable(key, det) /\ needsRefresh(cache, key, counter)}

\* buildSensorDefinitions (lines 289-570): the unique_ids in the order they
\* are pushed; one sensor stands for each group the builder adds
BuildDefs(det) ==
    <<"pc_cpu_temp", "pc_cpu_usage", "pc_cpu_speed">>
    \o (IF det.gpu THEN <<"pc_gpu_temp">> ELSE <<>>)
    \o <<"pc_mem_percent", "pc_swap_usage", "pc_disk_c_usage">>
    \o (IF det.diskTemp THEN <<"pc_disk_0_temp">> ELSE <<>>)
    \o (IF det.net THEN <<"pc_net_eth_rx">> ELSE <<>>)
    \o (IF det.battery THEN <<"pc_battery_level">> ELSE <<>>)
    \o <<"pc_uptime">>

\* the sensor a cache key feeds
FedBy(key) ==
    CASE key = "cpuTemp" -> "pc_cpu_temp"
      [] key = "cpuSpeed" -> "pc_cpu_speed"
      [] key = "gpuData" -> "pc_gpu_temp"
      [] key = "diskUsage" -> "pc_disk_c_usage"
      [] key = "diskTemps" -> "pc_disk_0_temp"
      [] key = "netStats" -> "pc_net_eth_rx"
      [] key = "swapMem" -> "pc_swap_usage"
      [] key = "battery" -> "pc_battery_level"

\* expensiveCache.cpuTemp.data?.main ?? null (line 700)
Main(data) == IF data \in Vals THEN data ELSE "null"

\* the switch of lines 734-894: the state of one record
StateOf(id, cache, resolvedCpuTemp, cpuUsage) ==
    CASE id = "pc_cpu_temp" -> resolvedCpuTemp
      [] id = "pc_cpu_usage" -> cpuUsage
      [] id = "pc_cpu_speed" ->
            IF cache["cpuSpeed"].data \in Vals THEN cache["cpuSpeed"].data ELSE "unknown"
      [] id = "pc_gpu_temp" ->
            IF cache["gpuData"].data \in Vals THEN cache["gpuData"].data ELSE "unknown"
      [] id = "pc_mem_percent" -> "m"
      [] id = "pc_swap_usage" ->
            IF cache["swapMem"].data \in Vals THEN cache["swapMem"].data ELSE "0 GB / 0 GB"
      [] id = "pc_disk_c_usage" ->
            IF cache["diskUsage"].data \in Vals THEN cache["diskUsage"].data ELSE "unknown"
      [] id = "pc_disk_0_temp" ->
            IF cache["diskTemps"].data \in Vals THEN cache["diskTemps"].data ELSE "unknown"
      [] id = "pc_net_eth_rx" ->
            IF cache["netStats"].data \in Vals THEN cache["netStats"].data ELSE "0"
      [] id = "pc_battery_level" ->
            IF cache["battery"].data \in Vals THEN cache["battery"].data ELSE "unknown"
      [] id = "pc_uptime" -> "t"

Entry(id, cache, resolvedCpuTemp, cpuUsage) ==
    [unique_id |-> id, state |-> StateOf(id, cache, resolvedCpuTemp, cpuUsage)]

\* the loop of lines 731-896
BuildStates_omitMissing(defs, cache, resolvedCpuTemp, cpuUsage) ==
    SelectSeq([i \in 1..Len(defs) |-> Entry(defs[i], cache, resolvedCpuTemp, cpuUsage)],
              LAMBDA e : e.state \notin {"unknown", "null"})

BuildStates(defs, cache, resolvedCpuTemp, cpuUsage) ==
    [i \in 1..Len(defs) |-> Entry(defs[i], cache, resolvedCpuTemp, cpuUsage)]

Ids(states) == [i \in 1..Len(states) |-> states[i].unique_id]

\* the guard of lines 645-647
Collecting_never(collecting) == FALSE

Collecting(collecting) == collecting

\* line 646: what the guard returns
GuardResult_empty(last) == <<>>

GuardResult(last) == last

\* the keys an answer may leave out: the one with a fallback, one that is
\* always asked for, one that depends on the hardware
FaultKeys == {"cpuTemp", "cpuSpeed", "netStats"}

\* answers of the batched si.get: it rejects, or it resolves with one
\* reading for the keys asked, possibly leaving one key out, the CPU
\* temperature with or without a main value
Answers(asked) ==
    {[ok |-> FALSE, reading |-> "a", missing |-> "none", main |-> FALSE]}
    \cup [ok : {TRUE}, reading : Vals,
          missing : (asked \cap FaultKeys) \cup {"none"}, main : BOOLEAN]

Faulty(ans) == ~ans.ok \/ ans.missing # "none"

\* lines 687-696: the entries the answer overwrites; a rejected si.get
\* leaves the try block before any of them is written
Refreshed_onFailure(asked, ans) == {key \in asked : key # ans.missing}

Refreshed(asked, ans) ==
    IF ans.ok THEN {key \in asked : key # ans.missing} ELSE {}

CacheAfter(cache, asked, ans, counter) ==
    [key \in CacheKeys |->
        IF key \in Refreshed(asked, ans)
        THEN [data |-> IF key = "cpuTemp" /\ ~ans.main THEN "nomain" ELSE ans.reading,
              tick |-> counter]
        ELSE cache[key]]

\* line 701: the fallback is asked
NeedsFallback(asked, resolvedCpuTemp, method) ==
    "cpuTemp" \in asked /\ resolvedCpuTemp = "null" /\ method # "si"

\* lines 898-902: the cycle ends with a list
Complete(k, c, cache, resolvedCpuTemp, refreshed, name) ==
    LET states == BuildStates(c.defs, cache, resolvedCpuTemp, c.cpuUsage)
        current == c.epoch = resets
    IN  /\ lastCollectedStates' = states
        /\ returned' = [kind |-> "list", value |-> states]
        /\ isCollecting' = FALSE
        /\ colls' = RemoveAt(colls, k)
        /\ cycle' = [ran |-> TRUE, defs |-> c.defs, asked |-> c.asked,
                     refreshed |-> refreshed, current |-> current]
        /\ served' = [key \in CacheKeys |->
                        IF key \in refreshed
                        THEN StateOf(FedBy(key), cache, resolvedCpuTemp, c.cpuUsage)
                        ELSE served[key]]
        /\ idsSeen' = IF current THEN Ids(states) ELSE idsSeen
        /\ query' = {}
        /\ cstep' = name

\* lines 900-902 when an await rejected: no catch, the caller gets the error
Throw(k) ==
    /\ isCollecting' = FALSE
    /\ colls' = RemoveAt(colls, k)
    /\ returned' = [kind |-> "throw", value |-> <<>>]
    /\ cycle' = NoCycle
    /\ query' = {}
    /\ cstep' = "collect.throw"
    /\ UNCHANGED <<lastCollectedStates, served, idsSeen>>

\* lines 653-697 up to the await of the batched query, and lines 699-899
\* when nothing is stale
AfterDefs(k, defs, det) ==
    LET usage == IF prevCpuTimes THEN "u" ELSE "unknown"
        asked == StaleKeys(expensiveCache, det, tickCounter)
        resolvedCpuTemp == Main(expensiveCache["cpuTemp"].data)
        c == [colls[k] EXCEPT !.defs = defs, !.cpuUsage = usage, !.asked = asked]
    IN  /\ prevCpuTimes' = TRUE
        /\ UNCHANGED expensiveCache
        /\ IF asked # {}
           THEN /\ colls' = [colls EXCEPT ![k] = [c EXCEPT !.pc = "probe"]]
                /\ query' = asked
                /\ cstep' = "collect.probe"
                /\ cycle' = NoCycle
                /\ returned' = NoReturn
                /\ UNCHANGED <<lastCollectedStates, isCollecting, served, idsSeen,
                               cpuTempMethod>>
           ELSE /\ cpuTempMethod' = IF resolvedCpuTemp # "null" THEN "si" ELSE cpuTempMethod
                /\ Complete(k, c, expensiveCache, resolvedCpuTemp, {}, "collect.cached")

\* collectSensorStates(), lines 643-652
CollectCall ==
    /\ UNCHANGED <<vars, extVars>>
    /\ IF Collecting(isCollecting)
       THEN /\ returned' = [kind |-> "list", value |-> GuardResult(lastCollectedStates)]
            /\ secondGot' = [called |-> TRUE, value |-> GuardResult(lastCollectedStates)]
            /\ query' = {}
            /\ cycle' = NoCycle
            /\ cstep' = "collect.busy"
            /\ UNCHANGED <<tickCounter, isCollecting, lastCollectedStates,
                           expensiveCache, cpuTempMethod, sensorDefinitions,
                           cachedStaticData, detected, prevCpuTimes, hardware,
                           colls, served, idsSeen, firstAfterReset, faults, resets>>
       ELSE /\ Len(colls) < MaxColls
            /\ tickCounter < MaxCycles
            /\ isCollecting' = TRUE
            /\ tickCounter' = tickCounter + 1
            /\ colls' = Append(colls,
                   [pc |-> IF sensorDefinitions = NoDefs THEN "static" ELSE "defs",
                    defs |-> sensorDefinitions,
                    cpuUsage |-> "unknown", asked |-> {}, refreshed |-> {},
                    first |-> firstAfterReset, epoch |-> resets])
            /\ firstAfterReset' = FALSE
            /\ secondGot' = NoSecond
            /\ returned' = NoReturn
            /\ query' = {}
            /\ cycle' = NoCycle
            /\ cstep' = "collect.start"
            /\ UNCHANGED <<lastCollectedStates, expensiveCache, cpuTempMethod,
                           sensorDefinitions, cachedStaticData, detected,
                           prevCpuTimes, hardware, served, idsSeen, faults, resets>>

\* the si.get of fetchStaticData (lines 180-235) settles, then
\* buildSensorDefinitions (lines 289-570) and the cycle go on
StaticDone(k, ok) ==
    /\ UNCHANGED <<vars, extVars>>
    /\ k \in DOMAIN colls
    /\ colls[k].pc = "static"
    /\ UNCHANGED <<tickCounter, hardware, resets, secondGot, firstAfterReset>>
    /\ IF ok
       THEN /\ detected' = hardware
            /\ cachedStaticData' = TRUE
            /\ sensorDefinitions' = BuildDefs(hardware)
            /\ AfterDefs(k, BuildDefs(hardware), hardware)
            /\ UNCHANGED faults
       ELSE /\ faults < MaxFaults
            /\ faults' = faults + 1
            /\ Throw(k)
            /\ UNCHANGED <<expensiveCache, cpuTempMethod, sensorDefinitions,
                           cachedStaticData, detected, prevCpuTimes>>

\* the await of line 652 resumes with the cached definitions
DefsDone(k) ==
    /\ UNCHANGED <<vars, extVars>>
    /\ k \in DOMAIN colls
    /\ colls[k].pc = "defs"
    /\ AfterDefs(k, colls[k].defs, detected)
    /\ UNCHANGED <<tickCounter, hardware, resets, secondGot, firstAfterReset,
                   sensorDefinitions, cachedStaticData, detected, faults>>

\* the si.get of line 687 settles: lines 689-709, then 711-899 unless the
\* fallback is awaited
ProbeDone(k, ans) ==
    /\ UNCHANGED <<vars, extVars>>
    /\ k \in DOMAIN colls
    /\ colls[k].pc = "probe"
    /\ ans \in Answers(colls[k].asked)
    /\ Faulty(ans) => faults < MaxFaults
    /\ faults' = IF Faulty(ans) THEN faults + 1 ELSE faults
    /\ UNCHANGED <<tickCounter, hardware, resets, secondGot, firstAfterReset,
                   sensorDefinitions, cachedStaticData, detected, prevCpuTimes>>
    /\ IF ~ans.ok
       THEN /\ Throw(k)
            /\ expensiveCache' = CacheAfter(expensiveCache, colls[k].asked, ans, tickCounter)
            /\ UNCHANGED cpuTempMethod
       ELSE LET c == colls[k]
                cache == CacheAfter(expensiveCache, c.asked, ans, tickCounter)
                refreshed == Refreshed(c.asked, ans)
                resolvedCpuTemp == Main(cache["cpuTemp"].data)
            IN  /\ expensiveCache' = cache
                /\ IF NeedsFallback(c.asked, resolvedCpuTemp, cpuTempMethod)
                   THEN /\ colls' = [colls EXCEPT ![k] =
                                [c EXCEPT !.pc = "wmi", !.refreshed = refreshed]]
                        /\ query' = {}
                        /\ cycle' = NoCycle
                        /\ returned' = NoReturn
                        /\ cstep' = "collect.wmi"
                        /\ UNCHANGED <<lastCollectedStates, isCollecting, served,
                                       idsSeen, cpuTempMethod>>
                   ELSE /\ cpuTempMethod' =
                                IF resolvedCpuTemp # "null" THEN "si" ELSE cpuTempMethod
                        /\ Complete(k, c, cache, resolvedCpuTemp, refreshed, "collect.done")

\* getWindowsCpuTemp() (lines 114-132) resolves with a temperature or null:
\* lines 703-705, then 711-899
WmiDone(k, wmiTemp) ==
    /\ UNCHANGED <<vars, extVars>>
    /\ k \in DOMAIN colls
    /\ colls[k].pc = "wmi"
    /\ cpuTempMethod' =
            IF wmiTemp # "null" THEN "wmi"
            ELSE IF cpuTempMethod = "null" THEN "none" ELSE cpuTempMethod
    /\ Complete(k, colls[k], expensiveCache, wmiTemp, colls[k].refreshed, "collect.done")
    /\ UNCHANGED <<tickCounter, hardware, resets, secondGot, firstAfterReset,
                   sensorDefinitions, cachedStaticData, detected, prevCpuTimes,
                   expensiveCache, faults>>

\* resetSensorDefinitions(), lines 909-921
resetSensorDefinitions ==
    /\ UNCHANGED <<vars, extVars>>
    /\ resets < MaxResets
    /\ resets' = resets + 1
    /\ sensorDefinitions' = NoDefs
    /\ cachedStaticData' = FALSE
    /\ prevCpuTimes' = FALSE
    /\ tickCounter' = 0
    /\ lastCollectedStates' = <<>>
    /\ expensiveCache' = FreshCache
    /\ served' = [k \in CacheKeys |-> "none"]
    /\ idsSeen' = <<>>
    /\ firstAfterReset' = TRUE
    /\ returned' = NoReturn
    /\ query' = {}
    /\ cycle' = NoCycle
    /\ cstep' = "reset"
    /\ UNCHANGED <<isCollecting, cpuTempMethod, detected, hardware, colls,
                   secondGot, faults>>

InitCollect ==
    /\ LoopIdle
    /\ webhookUrl = TRUE
    /\ mqttConnected = TRUE
    /\ update_interval = 0
    /\ CollectIdle
    /\ ExtIdle
    /\ hardware \in Machines

NextCollect ==
    \/ CollectCall
    \/ \E k \in 1..MaxColls, ok \in BOOLEAN : StaticDone(k, ok)
    \/ \E k \in 1..MaxColls : DefsDone(k)
    \/ \E k \in 1..MaxColls : \E ans \in Answers(CacheKeys) : ProbeDone(k, ans)
    \/ \E k \in 1..MaxColls, wmiTemp \in {"null", "w"} : WmiDone(k, wmiTemp)
    \/ resetSensorDefinitions

SpecCollect == InitCollect /\ [][NextCollect]_allVars

\* ------------------------------------------ properties of the collection
Range(s) == {s[i] : i \in DOMAIN s}

\* the state a list carries for a sensor
ValueIn(states, id) == (CHOOSE e \in Range(states) : e.unique_id = id).state

\* a step that builds the probe query of a cycle (lines 672-685)
BuildsQuery == cstep' \in {"collect.probe", "collect.cached"}

\* the keys the detected hardware makes applicable
ApplicableKeys(det) == {key \in CacheKeys : Applicable(key, det)}

ProbesInFlight == Cardinality({k \in DOMAIN colls : colls[k].pc = "probe"})

\* C11: a call of collectSensorStates() made while a collection is in flight
\* returns the stored list of the previous completed cycle at once, issues
\* no probe query, starts no activation and leaves the tick counter and the
\* caches alone; at most one probe query is in flight at any time.
C11_BusyReturnsPrevious ==
    /\ [](ProbesInFlight <= 1)
    /\ [][(cstep' \in {"collect.busy", "collect.start"} /\ colls # <<>>) =>
            /\ returned' = [kind |-> "list", value |-> lastCollectedStates]
            /\ query' = {}
            /\ UNCHANGED <<tickCounter, expensiveCache, colls, lastCollectedStates>>
         ]_allVars

C11_Witness ==
    /\ cstep = "collect.busy"
    /\ returned.value # <<>>
    /\ ProbesInFlight = 1

\* C12 as stated: when a second call was made during a cycle, the second
\* caller and the first caller receive the same list.
C12_SameResultForBoth ==
    (cycle.ran /\ secondGot.called) => secondGot.value = returned.value

\* C12, amended: the second caller receives the list stored before its call
\* (the previous completed cycle's, empty if there is none), the first
\* caller receives the list the in-flight cycle builds, which becomes the
\* stored list; the second call adds no activation and no probe query.
C12_SecondGetsStoredList ==
    [][/\ cstep' = "collect.busy" =>
            /\ secondGot' = [called |-> TRUE, value |-> lastCollectedStates]
            /\ Len(colls') = Len(colls)
            /\ ProbesInFlight' = ProbesInFlight
       /\ (cycle'.ran /\ secondGot.called) =>
            /\ secondGot' = secondGot
            /\ returned'.value = lastCollectedStates'
            /\ Ids(returned'.value) = cycle'.defs
      ]_allVars

C12_Witness ==
    /\ cycle.ran
    /\ secondGot.called
    /\ secondGot.value # <<>>
    /\ secondGot.value # returned.value

\* C13: a cache key applicable to the detected hardware is in the probe
\* query of cycle N iff N minus the tick of its last refresh is at least its
\* period (netStats 1, cpuTemp 2, battery 2, cpuSpeed 3, gpuData 3,
\* diskUsage 6, swapMem 6, diskTemps 10); the stale keys go into one query,
\* a cycle without stale keys issues none, and no other step issues one.
C13_StaleKeysBatched ==
    [][LET period == [netStats |-> 1, cpuTemp |-> 2, battery |-> 2, cpuSpeed |-> 3,
                      gpuData |-> 3, diskUsage |-> 6, swapMem |-> 6, diskTemps |-> 10]
           stale == {key \in ApplicableKeys(detected') :
                        tickCounter' - expensiveCache[key].tick >= period[key]}
       IN  IF BuildsQuery
           THEN /\ query' = stale
                /\ (cstep' = "collect.probe") <=> (stale # {})
           ELSE query' = {}
      ]_allVars

C13_Witness ==
    /\ cstep = "collect.probe"
    /\ "diskTemps" \in query
    /\ "cpuSpeed" \notin query
    /\ expensiveCache["diskTemps"].tick > 0

\* C14 as stated: a cycle that does not query a key reports for the sensor
\* the key feeds the value reported by the cycle that last refreshed it, the
\* CPU temperature obtained by the fallback included.
C14_SameValueBetweenRefreshes ==
    [][cycle'.ran =>
        \A key \in CacheKeys :
            (/\ key \notin cycle'.asked
             /\ served[key] # "none"
             /\ FedBy(key) \in Range(cycle'.defs))
            => ValueIn(returned'.value, FedBy(key)) = served[key]
      ]_allVars

\* C15 as stated: the first cycle after module load or after a reset
\* queries every applicable cache key.
C15_FirstCycleRefreshesAll ==
    [][(BuildsQuery /\ \E k \in DOMAIN colls :
            colls[k].first /\ colls[k].pc \in {"static", "defs"})
        => query' = ApplicableKeys(detected')
      ]_allVars

\* C16 as stated: collectSensorStates() never hands an error to its caller.
C16_NeverThrows == returned.kind # "throw"

\* C17: a cycle that runs to completion returns one record per sensor
\* definition, in definition order, and the unique_ids are those of the
\* previous list built since the reset, whatever was refreshed or missing.
C17_OneRecordPerDefinition ==
    [][cycle'.ran =>
        /\ Ids(returned'.value) = cycle'.defs
        /\ (cycle'.current /\ idsSeen # <<>>) => Ids(returned'.value) = idsSeen
      ]_allVars

C17_Witness ==
    /\ cycle.ran
    /\ cycle.current
    /\ tickCounter >= 2
    /\ cycle.refreshed # cycle.asked
    /\ Len(returned.value) = Len(idsSeen)

\* C18 as stated: no record of a returned list has a null state.
C18_NoNullState ==
    returned.kind = "list" =>
        \A i \in DOMAIN returned.value : returned.value[i].state # "null"

\* getCpuUsageNative, line 63: the usage in tenths of a percent,
\* Math.round taking a half upwards
CpuUsageTenths(dIdle, dTotal) ==
    IF dTotal > 0 THEN ((dTotal - dIdle) * 2000 + dTotal) \div (2 * dTotal) ELSE 0

\* differences of aggregate core time between two samples
Deltas == {0, 1, 3, 800, 1000}

\* C31: the CPU usage a completed cycle reports is indeterminate exactly on
\* the first collection after start or reset, a number on every later one;
\* the number is (dTotal - dIdle) / dTotal as a percentage rounded to one
\* decimal, 0 when dTotal <= 0, 20.0 for dIdle = 800 and dTotal = 1000.
C31_CpuUsage ==
    /\ [][(cycle'.ran /\ colls' # colls /\ Len(colls) = 1) =>
            (ValueIn(returned'.value, "pc_cpu_usage") = "unknown" <=> colls[1].first)
         ]_allVars
    /\ \A dTotal \in Deltas : \A dIdle \in {d \in Deltas : d <= dTotal} :
            LET r == CpuUsageTenths(dIdle, dTotal)
            IN  IF dTotal > 0
                THEN /\ 2 * (r * dTotal - 1000 * (dTotal - dIdle)) <= dTotal
                     /\ 2 * (1000 * (dTotal - dIdle) - r * dTotal) < dTotal
                ELSE r = 0
    /\ CpuUsageTenths(800, 1000) = 200

\* C32: the CPU-temperature method is one of null, 'si', 'wmi', 'none', and
\* a cycle that builds its query while the method records a failing primary
\* source ('wmi' or 'none') does not ask systeminformation for the CPU
\* temperature.
C32_PrimaryNotRetried ==
    /\ [](cpuTempMethod \in {"null", "si", "wmi", "none"})
    /\ [][(BuildsQuery /\ colls' # colls /\ cpuTempMethod \in {"wmi", "none"}) =>
            "cpuTemp" \notin query'
         ]_allVars

\* the cycle whose batched query is awaited
Probing == {k \in DOMAIN colls : colls[k].pc = "probe"}

\* C35: when the batched query of a cycle rejects, the cache is as before
\* in data and tick for every key, the keys the cycle asked for are stale
\* again for the next admitted cycle, and the stored list and the values
\* served stay what they were.
C35_FailedProbeKeepsCache ==
    [][(cstep' = "collect.throw" /\ Probing # {} /\ Probing' = {}) =>
            /\ expensiveCache' = expensiveCache
            /\ \A k \in Probing :
                    colls[k].asked \subseteq
                        StaleKeys(expensiveCache', detected', tickCounter' + 1)
            /\ lastCollectedStates' = lastCollectedStates
            /\ served' = served
      ]_allVars

\* a rejected query after a cycle had filled the cache
C35_Witness ==
    /\ cstep = "collect.throw"
    /\ query = {}
    /\ tickCounter >= 2
    /\ \E key \in CacheKeys : expensiveCache[key].tick >= 1
    /\ \E key \in CacheKeys : needsRefresh(expensiveCache, key, tickCounter)

\* ============================================================ MQTT client
\* src/ha-api.js

\* sensors that have or had a discovery config, and the definition lists
\* the application passes
AllIds == {"pc_cpu_temp", "pc_net_eth_rx", "pc_battery_level"}
DefLists == {<<"pc_cpu_temp">>, <<"pc_cpu_temp", "pc_net_eth_rx">>}

\* states a record can carry: a value, null, undefined
StateVals == {"a", "null", "undefined"}

\* lists of sensor states over a definition list
StateLists ==
    UNION {{[i \in 1..Len(defs) |-> [unique_id |-> defs[i], state |-> f[i]]] :
                f \in [1..Len(defs) -> StateVals]} : defs \in DefLists}

\* lines 12-14; every modelled sensor is of type 'sensor'
ConfigTopic(id) == [kind |-> "config", id |-> id]
STATE_TOPIC == [kind |-> "state", id |-> ""]
AVAILABILITY_TOPIC == [kind |-> "status", id |-> ""]

\* mqttClient.publish(topic, payload, { retain: true, qos: 1 })
Pub(topic, payload, body) ==
    [topic |-> topic, payload |-> payload, body |-> body, retain |-> TRUE]

\* mqttClient.end(false)
End == [topic |-> [kind |-> "end", id |-> ""], payload |-> "", body |-> <<>>,
        retain |-> FALSE]

\* connectOptions.will, lines 59-64
LastWill == Pub(AVAILABILITY_TOPIC, "offline", <<>>)

\* line 77: the handler is registered with on(), it runs at every connect
OnConnectFires_once(fresh) == fresh

OnConnectFires(fresh) == TRUE

\* the guard of lines 149, 207, 268, 302
Usable(client, conn) == client # "null" /\ conn

\* lines 278-283
Sanitize_nullOnly(val) == IF val = "null" THEN "None" ELSE val

Sanitize(val) == IF val \in {"null", "undefined"} THEN "None" ELSE val

\* lines 273-285: the flat object; a later record of an id overwrites
Payload(states) ==
    [id \in Range(Ids(states)) |->
        LET last == CHOOSE i \in DOMAIN states :
                        /\ states[i].unique_id = id
                        /\ \A j \in DOMAIN states : states[j].unique_id = id => j <= i
        IN  Sanitize(states[last].state)]

\* JSON.stringify (line 287) leaves out the keys whose value is undefined
Stringify(obj) == [id \in {k \in DOMAIN obj : obj[k] # "undefined"} |-> obj[id]]

\* the retained discovery configs once the broker has taken the publishes
DiscoveryAfter(disc, pubs) ==
    LET wiped == {pubs[i].topic.id : i \in {j \in DOMAIN pubs :
                        pubs[j].topic.kind = "config" /\ pubs[j].payload = ""}}
        set == {pubs[i].topic.id : i \in {j \in DOMAIN pubs :
                        pubs[j].topic.kind = "config" /\ pubs[j].payload = "config"}}
    IN  (disc \ wiped) \cup set

\* lines 240-243: one empty retained publish per stale topic
Wipes(oldTopics) == [i \in DOMAIN oldTopics |-> Pub(oldTopics[i], "", <<>>)]

\* lines 248-251 with publishDiscoveryConfig, lines 148-195
Configs_none(defs, client, conn) == <<>>

Configs(defs, client, conn) ==
    IF Usable(client, conn)
    THEN [i \in DOMAIN defs |-> Pub(ConfigTopic(defs[i]), "config", <<>>)]
    ELSE <<>>

\* lines 304-309
Removals(defs) == [i \in DOMAIN defs |-> Pub(ConfigTopic(defs[i]), "", <<>>)]

MqttQuiet(name) ==
    /\ published' = <<>>
    /\ thrown' = FALSE
    /\ call' = NoCall
    /\ mstep' = name

\* connect(brokerUrl, options), lines 46-68, up to mqtt.connect(); an open
\* client is disconnected first
ClientConnect ==
    /\ published' = IF mqttClient # "null" THEN <<LastWill, End>> ELSE <<>>
    /\ availability' = IF Usable(mqttClient, connected) THEN "offline" ELSE availability
    /\ mqttClient' = "new"
    /\ connected' = FALSE
    /\ isConnected' = FALSE
    /\ will' = LastWill
    /\ inbox' = {}
    /\ thrown' = FALSE
    /\ call' = NoCall
    /\ mstep' = "connect"
    /\ UNCHANGED <<discovery, stateDoc, pad>>

connect == ClientConnect /\ UNCHANGED notMqtt

\* the 'connect' event of the client, lines 78-91: the first connection and
\* every reconnection of reconnectPeriod
ClientOnConnect ==
    /\ mqttClient # "null"
    /\ ~connected
    /\ connected' = TRUE
    /\ mqttClient' = "used"
    /\ IF OnConnectFires(mqttClient = "new")
       THEN /\ published' = <<Pub(AVAILABILITY_TOPIC, "online", <<>>)>>
            /\ availability' = "online"
            /\ isConnected' = TRUE
       ELSE /\ published' = <<>>
            /\ UNCHANGED <<availability, isConnected>>
    /\ thrown' = FALSE
    /\ call' = [op |-> IF mqttClient = "new" THEN "first" ELSE "reconnect", arg |-> <<>>]
    /\ mstep' = "connect.event"
    /\ UNCHANGED <<will, discovery, stateDoc, pad, inbox>>

OnConnect == ClientOnConnect /\ UNCHANGED notMqtt

\* the connection drops: the broker publishes the last will, the client
\* emits 'close' / 'offline', lines 108-114
ClientOnClose ==
    /\ mqttClient # "null"
    /\ connected
    /\ connected' = FALSE
    /\ isConnected' = FALSE
    /\ availability' = will.payload
    /\ inbox' = {}
    /\ MqttQuiet("close")
    /\ UNCHANGED <<mqttClient, will, discovery, stateDoc, pad>>

OnClose == ClientOnClose /\ UNCHANGED notMqtt

\* the 'error' event, lines 93-101
ClientOnError ==
    /\ mqttClient # "null"
    /\ isConnected' = FALSE
    /\ MqttQuiet("error")
    /\ UNCHANGED <<mqttClient, connected, will, availability, discovery, stateDoc,
                   pad, inbox>>

OnError == ClientOnError /\ UNCHANGED notMqtt

\* disconnect(), lines 121-130
ClientDisconnect ==
    /\ IF mqttClient # "null"
       THEN /\ published' = <<Pub(AVAILABILITY_TOPIC, "offline", <<>>), End>>
            /\ availability' = IF connected THEN "offline" ELSE availability
            /\ mqttClient' = "null"
            /\ connected' = FALSE
            /\ isConnected' = FALSE
            /\ inbox' = {}
       ELSE /\ published' = <<>>
            /\ UNCHANGED <<availability, mqttClient, connected, isConnected, inbox>>
    /\ thrown' = FALSE
    /\ call' = [op |-> IF mqttClient # "null" THEN "open" ELSE "closed", arg |-> <<>>]
    /\ mstep' = "disconnect"
    /\ UNCHANGED <<will, discovery, stateDoc, pad>>

disconnect == ClientDisconnect /\ UNCHANGED notMqtt

\* publishSensorStates(sensorStates), lines 267-294
publishSensorStates(sensorStates) ==
    /\ IF ~Usable(mqttClient, connected)
       THEN /\ thrown' = TRUE
            /\ published' = <<>>
            /\ UNCHANGED stateDoc
       ELSE /\ thrown' = FALSE
            /\ published' = <<Pub(STATE_TOPIC, "json", Stringify(Payload(sensorStates)))>>
            /\ stateDoc' = Stringify(Payload(sensorStates))
    /\ call' = [op |-> IF Usable(mqttClient, connected) THEN "open" ELSE "closed",
                arg |-> sensorStates]
    /\ mstep' = "states.publish"
    /\ UNCHANGED <<mqttClient, connected, isConnected, will, availability, discovery,
                   pad, inbox>>
    /\ UNCHANGED notMqtt

\* publishAllDiscoveryConfigs(sensorDefs, ...), lines 205-231: up to subscribe()
publishAllDiscoveryConfigs(sensorDefs) ==
    /\ pad.pc = "idle"
    /\ pad' = IF Usable(mqttClient, connected)
              THEN [pc |-> "subscribing", defs |-> sensorDefs, oldTopics |-> <<>>]
              ELSE NoPad
    /\ published' = <<>>
    /\ thrown' = FALSE
    /\ call' = [op |-> IF Usable(mqttClient, connected) THEN "open" ELSE "closed",
                arg |-> sensorDefs]
    /\ mstep' = "discovery.call"
    /\ UNCHANGED <<mqttClient, connected, isConnected, will, availability, discovery,
                   stateDoc, inbox>>
    /\ UNCHANGED notMqtt

\* the callback of subscribe(), lines 231-235: the listener is attached and the
\* 1500 ms timer armed; the broker starts sending the retained configs
SubAck ==
    /\ pad.pc = "subscribing"
    /\ Usable(mqttClient, connected)
    /\ pad' = [pad EXCEPT !.pc = "listening"]
    /\ inbox' = discovery
    /\ MqttQuiet("discovery.suback")
    /\ UNCHANGED <<mqttClient, connected, isConnected, will, availability, discovery,
                   stateDoc>>
    /\ UNCHANGED notMqtt

\* a retained config arrives; onMessage, lines 219-229, if it is still attached
Deliver(id) ==
    /\ id \in inbox
    /\ Usable(mqttClient, connected)
    /\ inbox' = inbox \ {id}
    /\ pad' = IF pad.pc = "listening" /\ id \notin Range(pad.defs)
              THEN [pad EXCEPT !.oldTopics = Append(@, ConfigTopic(id))]
              ELSE pad
    /\ MqttQuiet("discovery.message")
    /\ UNCHANGED <<mqttClient, connected, isConnected, will, availability, discovery,
                   stateDoc>>
    /\ UNCHANGED notMqtt

\* the 1500 ms timer, lines 235-257; mqttClient.removeListener throws when
\* disconnect() has cleared mqttClient meanwhile, and the promise stays pending
WindowTimer ==
    /\ pad.pc = "listening"
    /\ IF mqttClient = "null"
       THEN /\ pad' = [pad EXCEPT !.pc = "hung"]
            /\ published' = <<>>
            /\ thrown' = TRUE
            /\ UNCHANGED discovery
       ELSE /\ pad' = [pad EXCEPT !.pc = "settling"]
            /\ published' = Wipes(pad.oldTopics) \o Configs(pad.defs, mqttClient, connected)
            /\ thrown' = FALSE
            /\ discovery' = IF connected THEN DiscoveryAfter(discovery, published')
                            ELSE discovery
    /\ call' = [op |-> IF Usable(mqttClient, connected) THEN "open" ELSE "closed",
                arg |-> pad.defs]
    /\ mstep' = "discovery.publish"
    /\ UNCHANGED <<mqttClient, connected, isConnected, will, availability, stateDoc,
                   inbox>>
    /\ UNCHANGED notMqtt

\* the 500 ms timer, lines 253-256: the promise resolves
ResolveTimer ==
    /\ pad.pc = "settling"
    /\ pad' = NoPad
    /\ MqttQuiet("discovery.resolve")
    /\ UNCHANGED <<mqttClient, connected, isConnected, will, availability, discovery,
                   stateDoc, inbox>>
    /\ UNCHANGED notMqtt

\* removeAllDiscoveryConfigs(sensorDefs), lines 301-311
removeAllDiscoveryConfigs(sensorDefs) ==
    /\ IF Usable(mqttClient, connected)
       THEN /\ published' = Removals(sensorDefs)
            /\ discovery' = DiscoveryAfter(discovery, Removals(sensorDefs))
       ELSE /\ published' = <<>>
            /\ UNCHANGED discovery
    /\ thrown' = FALSE
    /\ call' = [op |-> IF Usable(mqttClient, connected) THEN "open" ELSE "closed",
                arg |-> sensorDefs]
    /\ mstep' = "discovery.remove"
    /\ UNCHANGED <<mqttClient, connected, isConnected, will, availability, stateDoc,
                   pad, inbox>>
    /\ UNCHANGED notMqtt

\* the module as loaded, facing a broker that may hold discovery configs of
\* earlier runs
InitMqtt ==
    /\ LoopIdle
    /\ webhookUrl = TRUE
    /\ mqttConnected = TRUE
    /\ update_interval = 0
    /\ CollectIdle
    /\ hardware = [gpu |-> TRUE, battery |-> TRUE, net |-> TRUE, diskTemp |-> TRUE]
    /\ MqttIdle
    /\ discovery \in SUBSET AllIds
    /\ RegIdle
    /\ DefIdle

NextMqtt ==
    \/ connect
    \/ OnConnect
    \/ OnClose
    \/ OnError
    \/ disconnect
    \/ \E sensorStates \in StateLists : publishSensorStates(sensorStates)
    \/ \E sensorDefs \in DefLists : publishAllDiscoveryConfigs(sensorDefs)
    \/ SubAck
    \/ \E id \in AllIds : Deliver(id)
    \/ WindowTimer
    \/ ResolveTimer
    \/ \E sensorDefs \in DefLists : removeAllDiscoveryConfigs(sensorDefs)

SpecMqtt == InitMqtt /\ [][NextMqtt]_allVars

\* ------------------------------------------------------------- properties

\* C22: for every retained discovery config on the broker whose sensor id is
\* not in the current definition list, publishAllDiscoveryConfigs publishes an
\* empty retained payload to that config's topic, before any current config
C22_StaleConfigsWipedFirst ==
    [][(mstep' = "discovery.publish" /\ Usable(mqttClient, connected)) =>
            \A id \in discovery \ Range(pad.defs) :
                \E i \in DOMAIN published' :
                    /\ published'[i] = Pub(ConfigTopic(id), "", <<>>)
                    /\ \A j \in DOMAIN published' :
                           published'[j].payload = "config" => i < j
      ]_allVars

\* C40: every empty-payload publish of publishAllDiscoveryConfigs goes to the
\* discovery topic of an id that is not in the definition list of the call,
\* and on a connected client every definition of the list has its config
\* published after all the clearing publishes.
C40_CurrentIdsNeverCleared ==
    [][mstep' = "discovery.publish" =>
            /\ \A i \in DOMAIN published' :
                    published'[i].payload = "" =>
                        /\ published'[i].topic.kind = "config"
                        /\ published'[i].topic.id \notin Range(pad.defs)
            /\ Usable(mqttClient, connected) =>
                    \A d \in Range(pad.defs) :
                        \E j \in DOMAIN published' :
                            /\ published'[j] = Pub(ConfigTopic(d), "config", <<>>)
                            /\ \A i \in DOMAIN published' :
                                   published'[i].payload = "" => i < j
      ]_allVars

\* a publish step that cleared a stale topic and published the configs
C40_Witness ==
    /\ mstep = "discovery.publish"
    /\ \E i, j \in DOMAIN published :
            published[i].payload = "" /\ published[j].payload = "config"

\* C23: publishSensorStates(states) on a connected client publishes exactly
\* one retained message to the state topic; its object has a key for every
\* unique_id of states, "None" where the state was null or undefined, and no
\* null value; on a client that is not connected it publishes nothing and
\* throws
C23_OneStateDocument ==
    [][mstep' = "states.publish" =>
            LET states == call'.arg IN
            IF Usable(mqttClient, connected)
            THEN /\ thrown' = FALSE
                 /\ Len(published') = 1
                 /\ published'[1].topic = STATE_TOPIC
                 /\ published'[1].retain
                 /\ DOMAIN published'[1].body = Range(Ids(states))
                 /\ \A i \in DOMAIN states :
                        published'[1].body[states[i].unique_id] =
                            IF states[i].state \in {"null", "undefined"}
                            THEN "None" ELSE states[i].state
                 /\ \A k \in DOMAIN published'[1].body :
                        published'[1].body[k] \notin {"null", "undefined"}
            ELSE /\ thrown' = TRUE
                 /\ published' = <<>>
      ]_allVars

\* a document was published for a list that carried a null and an undefined
\* state
C23_Witness ==
    /\ mstep = "states.publish"
    /\ call.op = "open"
    /\ \E i, j \in DOMAIN call.arg :
            /\ call.arg[i].state = "null"
            /\ call.arg[j].state = "undefined"
    /\ Len(published) = 1
    /\ \E k \in DOMAIN stateDoc : stateDoc[k] = "None"

\* C24: every connect event of the client, reconnects included, publishes a
\* retained 'online' to the availability topic; disconnect() on an open client
\* publishes a retained 'offline' there before it ends the connection; the
\* connection is opened with a retained 'offline' last will on that topic
C24_AvailabilityAnnounced ==
    [][/\ mstep' = "connect.event" =>
            /\ published' = <<Pub(AVAILABILITY_TOPIC, "online", <<>>)>>
            /\ published'[1].retain
       /\ (mstep' = "disconnect" /\ mqttClient # "null") =>
            /\ Len(published') = 2
            /\ published'[1] = Pub(AVAILABILITY_TOPIC, "offline", <<>>)
            /\ published'[1].retain
            /\ published'[2] = End
       /\ mstep' = "connect" =>
            /\ will'.topic = AVAILABILITY_TOPIC
            /\ will'.payload = "offline"
            /\ will'.retain
      ]_allVars

\* the client has reconnected by itself and announced 'online' again
C24_Witness ==
    /\ mstep = "connect.event"
    /\ call.op = "reconnect"
    /\ availability = "online"
    /\ published = <<Pub(AVAILABILITY_TOPIC, "online", <<>>)>>

\* C25: after removeAllDiscoveryConfigs on a connected client no retained
\* discovery document of the device is left, documents of ids that are not in
\* the list passed in included
C25_NoConfigLeft ==
    [][(mstep' = "discovery.remove" /\ Usable(mqttClient, connected)) =>
            /\ discovery' = {}
            /\ \A id \in discovery :
                   \E i \in DOMAIN published' :
                       published'[i] = Pub(ConfigTopic(id), "", <<>>)
      ]_allVars

\* ====================================================== connect promise
\* src/ha-api.js, connect: the promise, its resolved flag and its timeout

\* connect() calls of a run
MaxConnects == 2

\* lines 69-76: the promise is pending, the 12000 ms timer is armed
NewAttempt == [resolved |-> FALSE, timeout |-> TRUE, settled |-> "pending",
               ended |-> FALSE, closed |-> FALSE]

\* lines 72-75, 87-90, 96-100: if (!resolved) { resolved = true; ... }
Settle_again(a, outcome) == [a EXCEPT !.resolved = TRUE, !.settled = outcome]

Settle(a, outcome) ==
    IF a.resolved THEN a ELSE [a EXCEPT !.resolved = TRUE, !.settled = outcome]

\* clearTimeout(timeout), lines 79 and 97
Cleared(a) == [a EXCEPT !.timeout = FALSE]

\* the 'error' handler, lines 96-100
AfterError(a) == IF a.resolved THEN a ELSE Settle(Cleared(a), "rejected")

\* mqttClient.end(false) of disconnect(): the client of the newest call
\* stops, its 'close' is still to come
EndLast(as, client) ==
    IF client # "null" /\ as # <<>>
    THEN [as EXCEPT ![Len(as)] = [@ EXCEPT !.ended = TRUE]]
    ELSE as

\* connect(brokerUrl, options), lines 46-76
Connecting ==
    /\ Len(attempts) < MaxConnects
    /\ ClientConnect
    /\ attempts' = Append(EndLast(attempts, mqttClient), NewAttempt)
    /\ UNCHANGED notClient

\* the 'connect' handler of the current client, lines 78-91
Connected ==
    /\ ClientOnConnect
    /\ attempts' = [attempts EXCEPT ![Len(attempts)] = Settle(Cleared(@), "resolved")]
    /\ UNCHANGED notClient

\* the 'error' handler of the current client, lines 93-101
Errored ==
    /\ ClientOnError
    /\ attempts' = [attempts EXCEPT ![Len(attempts)] = AfterError(@)]
    /\ UNCHANGED notClient

\* the 'close' / 'offline' handlers of the current client, lines 108-114
Closed ==
    /\ ClientOnClose
    /\ UNCHANGED attempts
    /\ UNCHANGED notClient

\* disconnect(), lines 121-130
Disconnecting ==
    /\ ClientDisconnect
    /\ attempts' = EndLast(attempts, mqttClient)
    /\ UNCHANGED notClient

\* the 12000 ms timer of a call fires, lines 71-76
Timeout(i) ==
    /\ i \in DOMAIN attempts
    /\ attempts[i].timeout
    /\ attempts' = [attempts EXCEPT ![i] = Settle(Cleared(@), "rejected")]
    /\ MqttQuiet("connect.timeout")
    /\ UNCHANGED <<mqttClient, connected, isConnected, will, availability, discovery,
                   stateDoc, pad, inbox>>
    /\ UNCHANGED notClient

\* a client that was ended emits its 'close': the handler of lines 108-110,
\* still attached, calls emitConnection(false)
LateClose(i) ==
    /\ i \in DOMAIN attempts
    /\ attempts[i].ended
    /\ ~attempts[i].closed
    /\ attempts' = [attempts EXCEPT ![i] = [@ EXCEPT !.closed = TRUE]]
    /\ isConnected' = FALSE
    /\ MqttQuiet("late.close")
    /\ UNCHANGED <<mqttClient, connected, will, availability, discovery, stateDoc,
                   pad, inbox>>
    /\ UNCHANGED notClient

\* a client that was ended emits an 'error' before it closes, lines 93-101
LateError(i) ==
    /\ i \in DOMAIN attempts
    /\ attempts[i].ended
    /\ ~attempts[i].closed
    /\ attempts' = [attempts EXCEPT ![i] = AfterError(@)]
    /\ isConnected' = FALSE
    /\ MqttQuiet("late.error")
    /\ UNCHANGED <<mqttClient, connected, will, availability, discovery, stateDoc,
                   pad, inbox>>
    /\ UNCHANGED notClient

InitConn ==
    /\ LoopIdle
    /\ webhookUrl = TRUE
    /\ mqttConnected = TRUE
    /\ update_interval = 0
    /\ CollectIdle
    /\ hardware = [gpu |-> TRUE, battery |-> TRUE, net |-> TRUE, diskTemp |-> TRUE]
    /\ ExtIdle

NextConn ==
    \/ Connecting
    \/ Connected
    \/ Errored
    \/ Closed
    \/ Disconnecting
    \/ \E i \in 1..MaxConnects : Timeout(i)
    \/ \E i \in 1..MaxConnects : LateClose(i)
    \/ \E i \in 1..MaxConnects : LateError(i)

\* an armed timer fires
SpecConn ==
    /\ InitConn
    /\ [][NextConn]_allVars
    /\ \A i \in 1..MaxConnects : WF_allVars(Timeout(i))

\* the attempt of the current client
Current == attempts[Len(attempts)]

\* C33: every connect() call settles, and once: its promise resolves at the
\* first 'connect' event, rejects at the first 'error' event or when its
\* timer fires, whichever comes first while it is pending, and a settled
\* promise is never settled again.
C33_SettlesExactlyOnce ==
    /\ [][\A i \in DOMAIN attempts :
            /\ attempts[i].settled # "pending" =>
                    attempts'[i].settled = attempts[i].settled
            /\ attempts'[i].settled # attempts[i].settled =>
                    attempts'[i].settled =
                        CASE mstep' = "connect.event" -> "resolved"
                          [] mstep' \in {"error", "late.error", "connect.timeout"} -> "rejected"
                          [] OTHER -> "pending"
         ]_allVars
    /\ [][(mstep' \in {"connect.event", "error"} /\ attempts # <<>>
            /\ Current.settled = "pending") =>
                attempts'[Len(attempts)].settled # "pending"
         ]_allVars
    /\ [](\A i \in DOMAIN attempts :
            attempts[i].settled = "pending" => attempts[i].timeout)
    /\ \A i \in 1..MaxConnects :
            (i \in DOMAIN attempts /\ attempts[i].settled = "pending")
                ~> (i \in DOMAIN attempts /\ attempts[i].settled # "pending")

\* a resolved promise whose client has had an error since, and a promise
\* rejected by its timer
C33_Witness ==
    /\ Len(attempts) = 2
    /\ attempts[1].settled = "rejected"
    /\ attempts[1].ended
    /\ attempts[2].settled = "resolved"
    /\ mstep = "error"

\* C37: an event of a client that disconnect() has ended does not clear the
\* connected flag of the module while the current client is connected.
C37_LateEventsIgnored ==
    [][(mstep' \in {"late.close", "late.error"} /\ Usable(mqttClient, connected)) =>
            isConnected' = isConnected
      ]_allVars

\* =================================================== single-flight guards
\* src/sensor-loop.js, tick, and src/sensors.js, collectSensorStates: the
\* loop with the collection engine at rest, and the engine with the loop at
\* rest

InitGuards ==
    /\ Init
    /\ webhookUrl = TRUE
    /\ mqttConnected = TRUE
    /\ update_interval = 0

\* the collection engine has not been called
EngineAtRest == cstep = "init"

\* the loop has not been started
LoopAtRest == step = "init"

\* the operations of the loop that start, run or end a tick, and those of
\* the collection engine
NextGuards ==
    \/ \E iv \in StartArgs : EngineAtRest /\ Start(iv)
    \/ EngineAtRest /\ Stop
    \/ \E i \in 1..MaxTimers : EngineAtRest /\ FireTimer(i)
    \/ EngineAtRest /\ TickCall
    \/ \E k \in 1..MaxTicks, r \in {"ok", "empty", "throw"} :
            EngineAtRest /\ CollectDone(k, r)
    \/ \E k \in 1..MaxTicks, r \in {"ok", "fail"} : EngineAtRest /\ PostDone(k, r)
    \/ EngineAtRest /\ Then
    \/ EngineAtRest /\ WebhookChange
    \/ EngineAtRest /\ MqttChange
    \/ LoopAtRest /\ CollectCall
    \/ \E k \in 1..MaxColls, ok \in BOOLEAN : LoopAtRest /\ StaticDone(k, ok)
    \/ \E k \in 1..MaxColls : LoopAtRest /\ DefsDone(k)
    \/ \E k \in 1..MaxColls : \E ans \in Answers(CacheKeys) :
            LoopAtRest /\ ProbeDone(k, ans)
    \/ \E k \in 1..MaxColls, wmiTemp \in {"null", "w"} : LoopAtRest /\ WmiDone(k, wmiTemp)
    \/ LoopAtRest /\ resetSensorDefinitions

SpecGuards == InitGuards /\ [][NextGuards]_allVars

\* C39: with no tick body suspended isUpdating is false, with no collection
\* suspended isCollecting is false, whatever way the last one ended; so a
\* tick is skipped and a collection answered from the stored list only
\* while another one is in flight.
C39_GuardsReleased ==
    /\ [](ticks = <<>> => ~isUpdating)
    /\ [](colls = <<>> => ~isCollecting)
    /\ [][step' = "tick.skip" => ticks # <<>>]_allVars
    /\ [][cstep' = "collect.busy" => colls # <<>>]_allVars

\* a tick admitted after a failed one
C39_Witness ==
    /\ step = "tick.collect"
    /\ consecutiveErrors > 0
    /\ isUpdating
    /\ Len(ticks) = 1

\* ============================================================ registration
\* src/ha-api.js (registerDevice, registerSensor, registerAllSensors),
\* src/config.js (saveConfig, getWebhookUrl), src/main.js (startCompanion)

\* the sensor definitions startCompanion registers
RegDefs == <<"pc_cpu_temp", "pc_net_eth_rx">>

\* what registerSensor returns or does: true, 'stale', false, or it throws
SensorResults == {"true", "stale", "false", "throw"}

\* the configurations startCompanion can find: a webhook id of an earlier
\* registration comes with or without a cloudhook and a remote UI URL
InitialConfigs ==
    {c \in [webhook_id : {"none", "w0"}, cloudhook_url : {"none", "w0"},
            remote_ui_url : {"none", "w0"}, url : BOOLEAN, token : BOOLEAN] :
        c.webhook_id = "none" => (c.cloudhook_url = "none" /\ c.remote_ui_url = "none")}

\* what registerDevice gives: it throws (ok = FALSE), or resolves to the
\* response body, with or without a webhook_id, cloudhook_url, remote_ui_url
DeviceResponses(id) ==
    {[ok |-> FALSE, webhook_id |-> "none", cloud |-> FALSE, remote |-> FALSE]} \cup
    [ok : {TRUE}, webhook_id : {"none", id}, cloud : BOOLEAN, remote : BOOLEAN]

\* config.js getWebhookUrl: the cloudhook URL is used as issued, the other two
\* carry the webhook id
getWebhookUrl(c) ==
    IF c.webhook_id = "none" THEN NoUrl
    ELSE IF c.cloudhook_url # "none" THEN [base |-> "cloud", gen |-> c.cloudhook_url]
    ELSE IF c.remote_ui_url # "none" THEN [base |-> "remote", gen |-> c.webhook_id]
    ELSE IF c.url THEN [base |-> "local", gen |-> c.webhook_id]
    ELSE NoUrl

\* config.saveConfig({webhook_id, cloudhook_url || null, remote_ui_url || null})
saveConfig(c, res) ==
    [c EXCEPT !.webhook_id = res.webhook_id,
              !.cloudhook_url = IF res.cloud THEN res.webhook_id ELSE "none",
              !.remote_ui_url = IF res.remote THEN res.webhook_id ELSE "none"]

\* main.js line 431: the URL is read again from the saved configuration
ReRegisterUrl_old(saved, old) == old

ReRegisterUrl(saved, old) == getWebhookUrl(saved)

\* ha-api.js lines 457-464
Tally(count, r) ==
    IF r = "true" THEN [count EXCEPT !.registered = @ + 1]
    ELSE IF r = "stale" THEN [count EXCEPT !.staleCount = @ + 1]
    ELSE [count EXCEPT !.failed = @ + 1]

\* ha-api.js line 467
IsStale(count) == count.staleCount > 0 /\ count.registered = 0

DeviceRequest(site) ==
    [op |-> "registerDevice", site |-> site, url |-> NoUrl, id |-> ""]

SensorRequest(site, url, id) ==
    [op |-> "registerSensor", site |-> site, url |-> url, id |-> id]

\* registerAllSensors(url, sensorDefs, initialStates) up to the first fetch
CallRegisterAll(site, url) ==
    /\ rc' = [rc EXCEPT !.pc = IF site = "stale" THEN "resensors" ELSE "sensors",
                        !.webhookUrl = url, !.i = 1, !.count = NoResult,
                        !.results = <<>>]
    /\ requests' = Append(requests, SensorRequest(site, url, RegDefs[1]))

\* startCompanion(), lines 385-393; url, token and webhook_id of cfg are those
\* of the configuration file at that moment
startCompanion ==
    /\ rc.pc = "idle"
    /\ rc' = [NoRun EXCEPT !.pc = "built"]
    /\ rstep' = "called"
    /\ UNCHANGED <<config, requests>>
    /\ UNCHANGED <<vars, notReg>>

\* step 1, lines 395-398
Register ==
    /\ rc.pc = "built"
    /\ IF config.webhook_id = "none" /\ config.url /\ config.token
       THEN /\ rc' = [rc EXCEPT !.pc = "registering"]
            /\ requests' = Append(requests, DeviceRequest("first"))
       ELSE /\ rc' = [rc EXCEPT !.pc = "step2"]
            /\ UNCHANGED requests
    /\ rstep' = "register"
    /\ UNCHANGED config
    /\ UNCHANGED <<vars, notReg>>

\* step 1, lines 398-409: registerDevice settles
Registered(res) ==
    /\ rc.pc = "registering"
    /\ config' = IF res.ok /\ res.webhook_id # "none" THEN saveConfig(config, res)
                 ELSE config
    /\ rc' = [rc EXCEPT !.pc = "step2"]
    /\ rstep' = IF res.ok THEN "registered" ELSE "register.failed"
    /\ UNCHANGED requests
    /\ UNCHANGED <<vars, notReg>>

\* step 2, lines 413-416
RegisterSensors ==
    /\ rc.pc = "step2"
    /\ IF getWebhookUrl(config) # NoUrl
       THEN CallRegisterAll("first", getWebhookUrl(config))
       ELSE /\ rc' = [rc EXCEPT !.pc = "mqtt"]
            /\ UNCHANGED requests
    /\ rstep' = "sensors"
    /\ UNCHANGED config
    /\ UNCHANGED <<vars, notReg>>

\* registerSensor settles, ha-api.js lines 455-467; after the last sensor
\* registerAllSensors returns into lines 417-422 or 433-434 of main.js
SensorDone(r) ==
    /\ rc.pc \in {"sensors", "resensors"}
    /\ LET count == Tally(rc.count, r)
           result == [count EXCEPT !.isStale = IsStale(count)]
           site == IF rc.pc = "sensors" THEN "first" ELSE "stale"
       IN  IF rc.i < Len(RegDefs)
           THEN /\ rc' = [rc EXCEPT !.i = @ + 1, !.count = count,
                                    !.results = Append(@, r)]
                /\ requests' = Append(requests,
                                      SensorRequest(site, rc.webhookUrl, RegDefs[rc.i + 1]))
                /\ rstep' = "sensor"
           ELSE IF rc.pc = "sensors"
           THEN /\ rc' = [rc EXCEPT !.pc = IF result.isStale THEN "reregistering"
                                           ELSE "mqtt",
                                    !.count = result, !.regResult = result,
                                    !.results = Append(@, r)]
                /\ requests' = IF result.isStale
                               THEN Append(requests, DeviceRequest("stale"))
                               ELSE requests
                /\ rstep' = "sensors.done"
           ELSE /\ rc' = [rc EXCEPT !.pc = "mqtt", !.count = result,
                                    !.results = Append(@, r)]
                /\ UNCHANGED requests
                /\ rstep' = "sensors.done"
    /\ UNCHANGED config
    /\ UNCHANGED <<vars, notReg>>

\* lines 422-438: the registerDevice of the re-registration settles; a fetch
\* without a base URL rejects
Reregistered(res) ==
    /\ rc.pc = "reregistering"
    /\ config.url \/ ~res.ok
    /\ IF res.ok /\ res.webhook_id # "none"
       THEN /\ config' = saveConfig(config, res)
            /\ IF ReRegisterUrl(config', rc.webhookUrl) # NoUrl
               THEN CallRegisterAll("stale", ReRegisterUrl(config', rc.webhookUrl))
               ELSE /\ rc' = [rc EXCEPT !.pc = "mqtt"]
                    /\ UNCHANGED requests
       ELSE /\ rc' = [rc EXCEPT !.pc = "mqtt"]
            /\ UNCHANGED <<config, requests>>
    /\ rstep' = IF res.ok THEN "reregistered" ELSE "rereg.failed"
    /\ UNCHANGED <<vars, notReg>>

\* steps 3 to 5, lines 448-470: connect() settles or rejects within its
\* timeout, the rejection is caught; the discovery configs are published
MqttDone ==
    /\ rc.pc = "mqtt"
    /\ rc' = [rc EXCEPT !.pc = "loop"]
    /\ rstep' = "mqtt"
    /\ UNCHANGED <<config, requests>>
    /\ UNCHANGED <<vars, notReg>>

\* step 6, line 473: sensorLoop.start(cfg.update_interval) ends the activation
LoopStart ==
    /\ rc.pc = "loop"
    /\ ~isRunning
    /\ Start(update_interval)

InitReg ==
    /\ LoopIdle
    /\ webhookUrl = TRUE
    /\ mqttConnected = TRUE
    /\ CollectIdle
    /\ hardware = [gpu |-> TRUE, battery |-> TRUE, net |-> TRUE, diskTemp |-> TRUE]
    /\ MqttIdle
    /\ discovery = {}
    /\ DefIdle
    /\ config \in InitialConfigs
    /\ rc = NoRun
    /\ requests = <<>>
    /\ rstep = "init"

NextReg ==
    \/ startCompanion
    \/ Register
    \/ \E res \in DeviceResponses("w1") : Registered(res)
    \/ RegisterSensors
    \/ \E r \in SensorResults : SensorDone(r)
    \/ \E res \in DeviceResponses("w2") : Reregistered(res)
    \/ MqttDone
    \/ LoopStart

\* every request settles, so an activation that can take a step takes it
SpecReg == InitReg /\ [][NextReg]_allVars /\ WF_allVars(NextReg)

\* ------------------------------------------------------------- properties

\* a registerAllSensors call has returned
Returned == rstep = "sensors.done"

\* C26: registerAllSensors reports isStale exactly when all sensor
\* registrations of the call were classified stale; a call in which some
\* registration hard-failed is not reported stale
C26_StaleIffAllStale ==
    [][Returned' =>
            (rc'.count.isStale <=>
                \A i \in DOMAIN rc'.results : rc'.results[i] = "stale")
      ]_allVars

\* the requests made at a call site
Sites(op, site) ==
    {i \in DOMAIN requests : requests[i].op = op /\ requests[i].site = site}

MaxBuilds == 1      \* calls that await the si.get of fetchStaticData at once

\* mount paths, interface names and disk names, as strings of characters
NameLists == {<<>>, <<<<"a">>>>, <<<<"a">>, <<"A">>>>, <<<<"a">>, <<"-">>>>}

\* disks of the same model carry the same name
DiskLists == {<<>>, <<<<"-">>>>, <<<<"a">>, <<"a">>>>}

\* what si.get can find
NamedMachines ==
    [gpu : BOOLEAN, battery : BOOLEAN, ifaces : NameLists, mounts : NameLists,
     disks : DiskLists]

\* nothing has been detected yet
NoMachine ==
    [gpu |-> FALSE, battery |-> FALSE, ifaces |-> <<>>, mounts |-> <<>>, disks |-> <<>>]

\* .replace(/[^a-zA-Z0-9]/g, '_').toLowerCase(), lines 383, 395, 410
SanitizeChar(ch) == IF ch = "A" THEN "a" ELSE IF ch = "a" THEN "a" ELSE "_"

SanitizeName(name) == [i \in DOMAIN name |-> SanitizeChar(name[i])]

\* a definition with a literal unique_id
Fixed(id) ==
    [unique_id |-> [kind |-> "fixed", id |-> <<>>, suffix |-> id], device |-> <<>>]

\* a definition with the unique_id `pc_<kind>_${id}_<suffix>`; device is its
\* _mount, _iface or disk name
Named(kind, name, suffix) ==
    [unique_id |-> [kind |-> kind, id |-> SanitizeName(name), suffix |-> suffix],
     device |-> name]

\* lines 326-346
GpuSensors_always(det) == <<Fixed("pc_gpu_temp"), Fixed("pc_gpu_usage")>>

GpuSensors(det) ==
    IF det.gpu THEN <<Fixed("pc_gpu_temp"), Fixed("pc_gpu_usage")>> ELSE <<>>

\* lines 382-391
DiskSensors(det) == [i \in DOMAIN det.mounts |-> Named("disk", det.mounts[i], "usage")]

\* lines 394-406
DiskTempSensors(det) == [i \in DOMAIN det.disks |-> Named("disk", det.disks[i], "temp")]

\* lines 409-433: an rx and a tx definition per interface
NetSensors(det) ==
    [i \in 1..(2 * Len(det.ifaces)) |->
        Named("net", det.ifaces[(i + 1) \div 2], IF i % 2 = 1 THEN "rx" ELSE "tx")]

\* lines 436-462
BatterySensors(det) ==
    IF det.battery
    THEN <<Fixed("pc_battery_level"), Fixed("pc_battery_charging"),
           Fixed("pc_ac_connected")>>
    ELSE <<>>

\* lines 291-560: the list buildSensorDefinitions pushes together
definitions(det) ==
    <<Fixed("pc_cpu_temp"), Fixed("pc_cpu_usage"), Fixed("pc_cpu_speed")>>
    \o GpuSensors(det)
    \o <<Fixed("pc_mem_usage"), Fixed("pc_mem_total"), Fixed("pc_mem_percent"),
         Fixed("pc_swap_usage")>>
    \o DiskSensors(det) \o DiskTempSensors(det) \o NetSensors(det)
    \o BatterySensors(det)
    \o <<Fixed("pc_baseboard_manufacturer"), Fixed("pc_baseboard_model"),
         Fixed("pc_bios_version"), Fixed("pc_cpu_model"), Fixed("pc_gpu_model"),
         Fixed("pc_gpu_vendor"), Fixed("pc_gpu_vram"), Fixed("pc_gpu_driver"),
         Fixed("pc_os_name"), Fixed("pc_os_version"), Fixed("pc_hostname"),
         Fixed("pc_uptime")>>

\* a call that finds no cached static data issues the si.get of line 180
Query(op) ==
    /\ Len(builds) < MaxBuilds
    /\ builds' = Append(builds, [op |-> op, first |-> firstAfterReset])
    /\ dstep' = "query"
    /\ UNCHANGED <<built, sensorDefinitions>>

\* buildSensorDefinitions(), lines 289-570, up to the si.get of
\* fetchStaticData (lines 172-180) or, with cached data, to its return
buildSensorDefinitions ==
    /\ IF cachedStaticData
       THEN /\ sensorDefinitions' = definitions(detected)
            /\ built' = [defs |-> definitions(detected), queried |-> FALSE,
                         first |-> firstAfterReset, epoch |-> resets]
            /\ dstep' = "return"
            /\ UNCHANGED builds
       ELSE Query("build")
    /\ firstAfterReset' = FALSE
    /\ UNCHANGED <<cachedStaticData, detected, hardware, resets>>
    /\ UNCHANGED notDefs

\* getSensorDefinitions(), lines 575-580
getSensorDefinitions ==
    /\ IF sensorDefinitions # NoDefs
       THEN /\ built' = [defs |-> sensorDefinitions, queried |-> FALSE,
                         first |-> FALSE, epoch |-> resets]
            /\ dstep' = "return"
            /\ UNCHANGED <<builds, sensorDefinitions, firstAfterReset>>
       ELSE /\ IF cachedStaticData
               THEN /\ sensorDefinitions' = definitions(detected)
                    /\ built' = [defs |-> definitions(detected), queried |-> FALSE,
                                 first |-> firstAfterReset, epoch |-> resets]
                    /\ dstep' = "return"
                    /\ UNCHANGED builds
               ELSE Query("get")
            /\ firstAfterReset' = FALSE
    /\ UNCHANGED <<cachedStaticData, detected, hardware, resets>>
    /\ UNCHANGED notDefs

\* the si.get of an activation settles: lines 193-235, then lines 291-569
FetchDone(k) ==
    /\ k \in DOMAIN builds
    /\ detected' = hardware
    /\ cachedStaticData' = TRUE
    /\ sensorDefinitions' = definitions(hardware)
    /\ built' = [defs |-> definitions(hardware), queried |-> TRUE,
                 first |-> builds[k].first, epoch |-> resets]
    /\ builds' = RemoveAt(builds, k)
    /\ dstep' = "return"
    /\ UNCHANGED <<hardware, resets, firstAfterReset>>
    /\ UNCHANGED notDefs

\* a battery is attached or removed while the application runs
HardwareChange ==
    /\ hardware' = [hardware EXCEPT !.battery = ~@]
    /\ dstep' = "hardware"
    /\ UNCHANGED <<builds, built, sensorDefinitions, cachedStaticData, detected,
                   resets, firstAfterReset>>
    /\ UNCHANGED notDefs

InitDefs ==
    /\ LoopIdle
    /\ webhookUrl = TRUE
    /\ mqttConnected = TRUE
    /\ update_interval = 0
    /\ ExtIdle
    /\ tickCounter = 0
    /\ isCollecting = FALSE
    /\ lastCollectedStates = <<>>
    /\ expensiveCache = FreshCache
    /\ cpuTempMethod = "null"
    /\ sensorDefinitions = NoDefs
    /\ cachedStaticData = FALSE
    /\ detected = NoMachine
    /\ prevCpuTimes = FALSE
    /\ colls = <<>>
    /\ returned = NoReturn
    /\ query = {}
    /\ cycle = NoCycle
    /\ secondGot = NoSecond
    /\ served = [k \in CacheKeys |-> "none"]
    /\ idsSeen = <<>>
    /\ firstAfterReset = TRUE
    /\ faults = 0
    /\ resets = 0
    /\ cstep = "init"
    /\ hardware \in NamedMachines

NextDefs ==
    \/ buildSensorDefinitions
    \/ getSensorDefinitions
    \/ \E k \in 1..MaxBuilds : FetchDone(k)
    \/ HardwareChange
    \/ resetSensorDefinitions

SpecDefs == InitDefs /\ [][NextDefs]_allVars

\* ------------------------------------------------------------- properties

\* C28: whatever mount paths, disk names and interface names were detected,
\* the unique_ids of the built definition list are pairwise distinct
C28_UniqueIdsDistinct ==
    sensorDefinitions # NoDefs =>
        \A i, j \in DOMAIN sensorDefinitions :
            i # j => sensorDefinitions[i].unique_id # sensorDefinitions[j].unique_id

\* the positions of the list that carry a literal unique_id
Holds(id) == {i \in DOMAIN sensorDefinitions : sensorDefinitions[i] = Fixed(id)}

\* the positions of the list built for a network interface
NetOf(name, suffix) ==
    {i \in DOMAIN sensorDefinitions :
        /\ sensorDefinitions[i].unique_id.kind = "net"
        /\ sensorDefinitions[i].unique_id.suffix = suffix
        /\ sensorDefinitions[i].device = name}

\* C29: the built list holds pc_gpu_temp and pc_gpu_usage iff an NVIDIA GPU
\* was detected, pc_battery_level, pc_battery_charging and pc_ac_connected iff
\* a battery was detected, and exactly one rx and one tx sensor per selected
\* interface; with no interface and no battery it holds no pc_net_*,
\* pc_battery_* or pc_ac_connected entry
C29_SensorsMatchHardware ==
    sensorDefinitions # NoDefs =>
        /\ \A id \in {"pc_gpu_temp", "pc_gpu_usage"} :
              Cardinality(Holds(id)) = IF detected.gpu THEN 1 ELSE 0
        /\ \A id \in {"pc_battery_level", "pc_battery_charging", "pc_ac_connected"} :
              Cardinality(Holds(id)) = IF detected.battery THEN 1 ELSE 0
        /\ \A name \in Range(detected.ifaces) :
              /\ Cardinality(NetOf(name, "rx")) = 1
              /\ Cardinality(NetOf(name, "tx")) = 1
        /\ Cardinality({i \in DOMAIN sensorDefinitions :
                            sensorDefinitions[i].unique_id.kind = "net"})
              = 2 * Len(detected.ifaces)

\* a list was built on a machine without NVIDIA GPU and battery and with two
\* interfaces
C29_Witness ==
    /\ dstep = "return"
    /\ sensorDefinitions # NoDefs
    /\ ~detected.gpu
    /\ ~detected.battery
    /\ Len(detected.ifaces) = 2
    /\ Holds("pc_gpu_temp") = {}
    /\ Holds("pc_gpu_model") # {}

\* a call of buildSensorDefinitions / getSensorDefinitions returns
Returns == dstep' = "return" /\ resets' = resets /\ hardware' = hardware

\* C30: without a reset, repeated getSensorDefinitions / buildSensorDefinitions
\* calls return the same definitions, also after a hardware change, and issue
\* no new detection query; the first build after resetSensorDefinitions()
\* queries the hardware again and returns the definitions of the hardware
\* present then
C30_RequeryOnlyAfterReset ==
    /\ [][(Returns /\ built.defs # NoDefs /\ built.epoch = resets) =>
              (built'.defs = built.defs /\ ~built'.queried)]_allVars
    /\ [][(firstAfterReset /\ ~firstAfterReset' /\ resets > 0) =>
              Len(builds') = Len(builds) + 1]_allVars
    /\ [][(Returns /\ built'.first /\ built'.epoch > 0) =>
              (built'.queried /\ built'.defs = definitions(hardware))]_allVars

====
